---- MODULE Spec2Model ----
(***************************************************************************)
(* A model of the joint time-frequency scattering code of kymatio:         *)
(*   - the TensorFlow 1D backend primitive subsample_fourier,              *)
(*   - the filter-bank helpers get_max_dyadic_subsampling and              *)
(*     periodize_filter_fourier and the factory scattering_filter_factory, *)
(*   - the cascade timefrequency_scattering with its helpers               *)
(*     _frequency_scattering, _frequency_lowpass and _joint_lowpass.       *)
(*                                                                         *)
(* Arrays are sequences (index m of the code is index m + 1 here).  Filter *)
(* and signal samples are small integers; the result of a mean is an exact *)
(* rational <<numerator, denominator>> in lowest terms.  Frequencies and   *)
(* widths of get_max_dyadic_subsampling are dyadic rationals in units of   *)
(* 1 / Den, on which binary floating point arithmetic is exact.            *)
(***************************************************************************)
EXTENDS Integers, Sequences, FiniteSets, TLC

VARIABLES sub, dy, fac, cas, tor, cal, pfr, pd, cd, nf, ts, rc, ml, phf

vars == <<sub, dy, fac, cas, tor, cal, pfr, pd, cd, nf, ts, rc, ml, phf>>

\* ------------------------------------------------------------------ bounds
\* longest array given to subsample_fourier
MaxLen == 4
\* largest real or imaginary part of a sample
MaxVal == 1
\* frequencies are multiples of 2^-GridBits
GridBits == 6
\* largest scale J given to scattering_filter_factory
FacMaxJ == 2
\* most wavelets in one bank given to the factory
FacMaxFilters == 2
\* the sampled filters are drawn from MaxSeed + 1 families of arrays
MaxSeed == 1
\* largest scale J of a scattering call
MaxJ == 2
\* most first-order wavelets of a scattering call
MaxPsi1 == 3
\* most second-order wavelets of a scattering call
MaxPsi2 == 2
\* largest oversampling and oversampling_fr
MaxOversampling == 1
\* largest oversampling_fr of the joint calls
MaxOversamplingFr == 2
\* largest frequential scale J_fr
MaxJfr == 2
\* most frequential wavelets per spin
MaxPsiFr == 2
\* largest equivalent subsampling j0 of a frequential padding
MaxJ0 == 1
\* Torch frontend: filters per bank, levels per filter, scattering calls
MaxTorFilters == 2
MaxTorLevels == 2
MaxCalls == 2
\* calibration: largest scale J, wavelets per octave Q1 and Q2, support T
CalMaxJ == 3
MaxQ == 3
MaxQ2 == 2
CalMaxT == 8
\* frequential wavelets: log2 of the longest padded length
MaxPadFr == 3
\* padding: largest amount added on one side (beyond the longest signal)
MaxPadAmount == 6
\* cdgmm: largest size of a tensor dimension
MaxDim == 2
\* normalization: samples of a filter, largest sample in units of 1e-8
NormMaxLen == 3
NormMaxUnits == 6
\* temporal support: length of a filter in time, largest modulus of a sample
TsMaxLen == 6
TsMaxAmp == 2
\* recalibration: log2 of the largest shape_fr, number of paddings, number
\* of frequential wavelets, largest width (in units of the smallest)
RecMaxScale == 3
RecMaxShapes == 3
RecMaxFilters == 2
RecMaxSigma == 4
\* minimum length: largest N_init, and log2 of the length at which the
\* doubling is no longer followed
MlMaxNInit == 9
MlMaxLog2 == 32

\* phi_fr_factory: largest J_pad_fr_max (and log2 of the temporal support of
\* the low-pass), largest F, largest log2_F
PhiMaxJPad == 4
PhiMaxF == 5
PhiMaxLog2F == 3

\* ----------------------------------------------------------------- helpers
Min(a, b) == IF a < b THEN a ELSE b
Max(a, b) == IF a > b THEN a ELSE b
Abs(a) == IF a < 0 THEN -a ELSE a

RECURSIVE Pow2(_)
Pow2(n) == IF n <= 0 THEN 1 ELSE 2 * Pow2(n - 1)

RECURSIVE GCD(_, _)
GCD(a, b) == IF b = 0 THEN a ELSE GCD(b, a % b)

\* the rational n / d (d > 0) in lowest terms
Rat(n, d) ==
    LET g == GCD(Abs(n), d)
    IN  IF n = 0 THEN <<0, 1>> ELSE <<n \div g, d \div g>>

RECURSIVE SumTo(_, _)
\* f[1] + ... + f[n]
SumTo(f, n) == IF n = 0 THEN 0 ELSE f[n] + SumTo(f, n - 1)

\* ------------------------------------------- TensorFlowBackend1D (backend)
\* tf.reshape(x, (k, L // k)): row i (0-based) holds x[i * seg + m]
Reshape(x, k, seg) == [i \in 1..k |-> [m \in 1..seg |-> x[(i - 1) * seg + m]]]

\* tf.reduce_sum(y, axis=-2) in the place of the mean of line 33
ReduceSum(y, k, seg) ==
    [m \in 1..seg |->
        <<Rat(SumTo([i \in 1..k |-> y[i][m][1]], k), 1),
          Rat(SumTo([i \in 1..k |-> y[i][m][2]], k), 1)>>]

\* tf.reduce_mean(y, axis=-2) of a k x seg array of complex numbers
ReduceMean(y, k, seg) ==
    [m \in 1..seg |->
        <<Rat(SumTo([i \in 1..k |-> y[i][m][1]], k), k),
          Rat(SumTo([i \in 1..k |-> y[i][m][2]], k), k)>>]

\* subsample_fourier(x, k): complex_check, reshape, reduce over the k rows
subsample_fourier(x, dtype, k) ==
    LET L == Len(x)
        seg == L \div k
    IN  IF dtype # "complex64"
        THEN [raised |-> "TypeError", val |-> <<>>]
        ELSE IF k * seg # L
        THEN [raised |-> "InvalidArgumentError", val |-> <<>>]
        ELSE [raised |-> "none", val |-> ReduceMean(Reshape(x, k, seg), k, seg)]

Samples == (0..MaxVal) \X (0..MaxVal)

SubInputs ==
    UNION {[1..L -> Samples] : L \in 1..MaxLen}

SubIdle == [pc |-> "idle", x |-> <<>>, dtype |-> "complex64", k |-> 1,
            res |-> [raised |-> "none", val |-> <<>>]]

SubInit ==
    \E x \in SubInputs, k \in 1..MaxLen, dtype \in {"complex64", "float32"} :
        sub = [pc |-> "call", x |-> x, dtype |-> dtype, k |-> k,
               res |-> [raised |-> "none", val |-> <<>>]]

SubsampleFourier ==
    /\ sub.pc = "call"
    /\ sub' = [sub EXCEPT !.pc = "done",
                          !.res = subsample_fourier(sub.x, sub.dtype, sub.k)]
    /\ UNCHANGED <<dy, fac, cas, tor, cal, pfr, pd, cd, nf, ts, rc, ml, phf>>

\* ------------------------------------------------ filter_bank (dyadic bound)
Den == Pow2(GridBits)

\* math.floor(-math.log2(u / Den)) for 1 <= u <= Den: the m with
\* 2^m <= Den / u < 2^(m+1)
FloorNegLog2(u) ==
    CHOOSE m \in 0..GridBits : u * Pow2(m) <= Den /\ u * Pow2(m + 1) > Den

\* get_max_dyadic_subsampling(xi, sigma, alpha), xi and sigma in units 1/Den
get_max_dyadic_subsampling(xi, sigma, alpha) ==
    LET upper_bound == Min(xi + alpha * sigma, Den \div 2)
    IN  FloorNegLog2(upper_bound) - 1

AlphaSet == {4, 5}

DyIdle == [pc |-> "idle", xi |-> 0, sigma |-> 1, alpha |-> 4, j |-> 0]

DyInit ==
    \E xi \in 0..(Den \div 2), sigma \in 1..(Den \div 8), alpha \in AlphaSet :
        dy = [pc |-> "call", xi |-> xi, sigma |-> sigma, alpha |-> alpha,
              j |-> 0]

GetMaxDyadicSubsampling ==
    /\ dy.pc = "call"
    /\ dy' = [dy EXCEPT !.pc = "done",
                        !.j = get_max_dyadic_subsampling(dy.xi, dy.sigma,
                                                          dy.alpha)]
    /\ UNCHANGED <<sub, fac, cas, tor, cal, pfr, pd, cd, nf, ts, rc, ml, phf>>


\* ------------------------------------------------- filter_bank (the factory)
RatAdd(a, b) == Rat(a[1] * b[2] + b[1] * a[2], a[2] * b[2])

RECURSIVE RatSumTo(_, _)
\* f[1] + ... + f[n] of rationals
RatSumTo(f, n) == IF n = 0 THEN <<0, 1>> ELSE RatAdd(f[n], RatSumTo(f, n - 1))

\* periodize_filter_fourier with its default aggregation taken to be 'mean'
periodize_mean(h_f, nperiods, aggregation) ==
    LET N == Len(h_f) \div nperiods
    IN  [m \in 1..N |->
            LET s == RatSumTo([i \in 1..nperiods |-> h_f[(i - 1) * N + m]],
                              nperiods)
            IN  Rat(s[1], s[2] * nperiods)]

\* periodize_filter_fourier(h_f, nperiods, aggregation)
periodize_filter_fourier(h_f, nperiods, aggregation) ==
    LET N == Len(h_f) \div nperiods
    IN  [m \in 1..N |->
            LET s == RatSumTo([i \in 1..nperiods |-> h_f[(i - 1) * N + m]],
                              nperiods)
            IN  IF aggregation = "sum" THEN s
                ELSE Rat(s[1], s[2] * nperiods)]

\* the samples morlet_1d / gauss_1d return for filter n of family seed: the
\* values are not modelled, only that they are N numbers
SampledFilter(N, seed, n) ==
    [i \in 1..N |-> <<((i + n) * (seed + 1) + (i * i)) % 3, 1>>]

\* nondecreasing lists of maximal subsamplings 0..J, as the calibration
\* returns them
JLists(J, maxlen) ==
    {s \in UNION {[1..l -> 0..J] : l \in 1..maxlen} :
        \A i \in 1..(Len(s) - 1) : s[i] <= s[i + 1]}

SeqMax(s) == CHOOSE v \in {s[i] : i \in 1..Len(s)} :
                \A i \in 1..Len(s) : s[i] <= v

\* math.floor(math.log2(T)) for T >= 1
FloorLog2(T) == CHOOSE m \in 0..T : Pow2(m) <= T /\ T < Pow2(m + 1)

None == -1

\* all levels 0..max_sub of one filter, as the two factory loops store them
FilterLevels(h0, max_sub) ==
    [k \in 0..max_sub |->
        IF k = 0 THEN h0 ELSE periodize_filter_fourier(h0, Pow2(k), "sum")]

\* lines 760-768: the maximal level stored for psi2[n2]
MaxSubPsi2(j1s, j2, max_subsampling) ==
    IF max_subsampling = None
    THEN LET possible == {j1s[i] : i \in {i \in 1..Len(j1s) : j2 > j1s[i]}}
         IN  IF possible # {}
             THEN CHOOSE v \in possible : \A w \in possible : w <= v
             ELSE 0
    ELSE max_subsampling

\* lines 791-798: the maximal level stored for phi; log2_T is assigned only
\* on the first branch
MaxSubPhi(j1s, j2s, T, max_subsampling) ==
    IF max_subsampling = None
    THEN Min(Max(SeqMax(j1s), SeqMax(j2s)), FloorLog2(T))
    ELSE max_subsampling

FacIdle == [pc |-> "idle", J |-> 0, N |-> 1, T |-> 1, seed |-> 0,
            max_subsampling |-> None, j1s |-> <<>>, j2s |-> <<>>,
            psi1_f |-> <<>>, psi2_f |-> <<>>,
            phi_f |-> [levels |-> <<>>, j |-> None]]

FacInit ==
    \E J \in 1..FacMaxJ, seed \in 0..MaxSeed :
    \E T \in 1..Pow2(J), ms \in {None} \cup 0..J,
       j1s \in JLists(J, FacMaxFilters), j2s \in JLists(J, FacMaxFilters) :
        fac = [pc |-> "psi2", J |-> J, N |-> Pow2(J + 1), T |-> T,
               seed |-> seed, max_subsampling |-> ms,
               j1s |-> j1s, j2s |-> j2s,
               psi1_f |-> <<>>, psi2_f |-> <<>>,
               phi_f |-> [levels |-> <<>>, j |-> None]]

\* lines 757-780: one turn of the loop over the second-order filters
FactoryPsi2 ==
    /\ fac.pc = "psi2"
    /\ Len(fac.psi2_f) < Len(fac.j2s)
    /\ LET n2 == Len(fac.psi2_f) + 1
           ms == MaxSubPsi2(fac.j1s, fac.j2s[n2], fac.max_subsampling)
           h0 == SampledFilter(fac.N, fac.seed, n2)
       IN  fac' = [fac EXCEPT !.psi2_f =
                      Append(@, [levels |-> FilterLevels(h0, ms), j |-> None])]
    /\ UNCHANGED <<sub, dy, cas, tor, cal, pfr, pd, cd, nf, ts, rc, ml, phf>>

\* lines 784-786: the first-order filters, stored at level 0 only
FactoryPsi1 ==
    /\ fac.pc = "psi2"
    /\ Len(fac.psi2_f) = Len(fac.j2s)
    /\ fac' = [fac EXCEPT
                  !.pc = "phi",
                  !.psi1_f = [n1 \in 1..Len(fac.j1s) |->
                      [levels |-> FilterLevels(
                          SampledFilter(fac.N, fac.seed, Len(fac.j2s) + n1), 0),
                       j |-> None]]]
    /\ UNCHANGED <<sub, dy, cas, tor, cal, pfr, pd, cd, nf, ts, rc, ml, phf>>

\* lines 791-806: the low-pass filter at every level
FactoryPhi ==
    /\ fac.pc = "phi"
    /\ LET ms == MaxSubPhi(fac.j1s, fac.j2s, fac.T, fac.max_subsampling)
           h0 == SampledFilter(fac.N, fac.seed, 0)
       IN  fac' = [fac EXCEPT !.pc = "meta",
                              !.phi_f = [levels |-> FilterLevels(h0, ms),
                                         j |-> None]]
    /\ UNCHANGED <<sub, dy, cas, tor, cal, pfr, pd, cd, nf, ts, rc, ml, phf>>

\* lines 809-819: the meta information; log2_T is unbound when
\* max_subsampling was given, and reading it raises
FactoryMeta ==
    /\ fac.pc = "meta"
    /\ LET withj(fs, js) ==
               [n \in 1..Len(fs) |-> [fs[n] EXCEPT !.j = js[n]]]
       IN  fac' = [fac EXCEPT
                      !.psi1_f = withj(@, fac.j1s),
                      !.psi2_f = withj(@, fac.j2s),
                      !.phi_f = IF fac.max_subsampling = None
                                THEN [@ EXCEPT !.j = FloorLog2(fac.T)]
                                ELSE @,
                      !.pc = IF fac.max_subsampling = None
                             THEN "done" ELSE "NameError"]
    /\ UNCHANGED <<sub, dy, cas, tor, cal, pfr, pd, cd, nf, ts, rc, ml, phf>>

\* ------------------------------------------------ the cascade: its arrays
(* An array of the cascade is the list of backend calls that produced it,   *)
(* the axis that is last, and the log2 of the subsampling applied so far    *)
(* along time (tm) and along frequency (fr).                                *)
Op(name, a, b) == [op |-> name, a |-> a, b |-> b]
Apply(x, name, a, b) == [x EXCEPT !.ops = Append(@, Op(name, a, b))]

\* the input signal x, and the empty list []
Signal == [ops |-> <<>>, last |-> "time", tm |-> 0, fr |-> 0]
EmptyList == [ops |-> <<>>, last |-> "none", tm |-> 0, fr |-> 0]

\* B.subsample_fourier(x, 2**k) along the last axis
B_subsample_fourier(x, k) ==
    [Apply(x, "subsample_fourier", k, 0) EXCEPT
        !.tm = IF x.last = "time" THEN @ + k ELSE @,
        !.fr = IF x.last = "freq" THEN @ + k ELSE @]

\* B.transpose(x): swaps the last two axes
B_transpose(x) ==
    [Apply(x, "transpose", 0, 0) EXCEPT
        !.last = IF x.last = "time" THEN "freq" ELSE "time"]

\* the list index seq[i] of Python, i < 0 counting from the end
PyIndex(seq, i) == IF i < 0 THEN seq[Len(seq) + i + 1] ELSE seq[i + 1]

Entry(coef, j, n, s) == [coef |-> coef, j |-> j, n |-> n, s |-> s]

\* ------------------------------------------ the cascade: state and inputs
(* sc_freq as the cascade reads it: J_pad[n2] = J_pad_max - j0s[n2]; j0s is *)
(* ordered greater to lower and ends with the longest padding (j0 = 0);     *)
(* psi_j[n1_fr] is psi1_f_up[n1_fr]['j'] = psi1_f_down[n1_fr]['j'].         *)
ScFreq(J_fr, J_fr_fo, j0s, max_subsampling_before_phi_fr, psi_j) ==
    [J_fr |-> J_fr, J_fr_fo |-> J_fr_fo,
     J_pad_max |-> MaxJ0 + FloorLog2(MaxPsi1) + 1,
     J_pad_fo |-> MaxJ0 + FloorLog2(MaxPsi1) + 1,
     j0s |-> j0s,
     max_subsampling_before_phi_fr |-> max_subsampling_before_phi_fr,
     psi_j |-> psi_j]

J0Lists(n_psi2) ==
    {s \in [1..n_psi2 -> 0..MaxJ0] :
        /\ \A i \in 1..(n_psi2 - 1) : s[i] >= s[i + 1]
        /\ s[n_psi2] = 0}

ScFreqs(n_psi2) ==
    UNION {{ScFreq(J_fr, J_fr + d, j0s, m, psi_j) :
               d \in {0, 1}, j0s \in J0Lists(n_psi2), m \in 0..J_fr,
               psi_j \in {l \in JLists(J_fr, MaxPsiFr) : Len(l) = MaxPsiFr}} :
           J_fr \in 1..MaxJfr}

J_pad(sc, n2) == sc.J_pad_max - PyIndex(sc.j0s, n2)

CasIdle ==
    [pc |-> "idle", J |-> 0, oversampling |-> 0, oversampling_fr |-> 0,
     aligned |-> TRUE, average |-> TRUE, average_fr |-> "true",
     out_type |-> "array", log2_pad |-> 0, psi1 |-> <<>>, psi2 |-> <<>>,
     sc |-> [J_fr |-> 0, J_fr_fo |-> 0, J_pad_max |-> 0, J_pad_fo |-> 0,
             j0s |-> <<>>, max_subsampling_before_phi_fr |-> 0,
             psi_j |-> <<>>],
     U_0_hat |-> EmptyList, U_1_hat_list |-> <<>>, S_1_c_list |-> <<>>,
     n1 |-> 0, n2 |-> 0, j2 |-> 0, k1 |-> None,
     k2 |-> None, pad_fr |-> 0, k1_plus_k2 |-> None, Y_2_arr |-> <<>>,
     out_S_0 |-> <<>>, out_S_1 |-> <<>>, psi_psi_up |-> <<>>,
     psi_psi_down |-> <<>>, psi_phi |-> <<>>, phi_psi |-> <<>>]

\* the state at the call, with the arguments of timefrequency_scattering
CasCall(J, psi1, psi2, sc, oversampling, oversampling_fr, aligned, average, average_fr, out_type) ==
    [CasIdle EXCEPT
        !.pc = "zeroth", !.J = J, !.oversampling = oversampling,
        !.oversampling_fr = oversampling_fr, !.aligned = aligned,
        !.average = average, !.average_fr = average_fr,
        !.out_type = out_type, !.log2_pad = J + 1,
        !.psi1 = psi1, !.psi2 = psi2, !.sc = sc]

\* --------------------------------------- timefrequency_scattering, order 0
\* lines 26-39
ZerothOrder ==
    /\ cas.pc = "zeroth"
    /\ LET U_0 == Apply(Signal, "pad", 0, 0)
           U_0_hat == Apply(U_0, "rfft", 0, 0)
           k0 == Max(cas.J - cas.oversampling, 0)
           S_0_c == Apply(U_0_hat, "cdgmm_phi", 0, 0)
           S_0_hat == B_subsample_fourier(S_0_c, k0)
           S_0_r == Apply(S_0_hat, "irfft", 0, 0)
           S_0 == IF cas.average THEN Apply(S_0_r, "unpad", k0, 0)
                  ELSE Signal
       IN  cas' = [cas EXCEPT !.pc = "first", !.U_0_hat = U_0_hat, !.n1 = 0,
                              !.out_S_0 = <<Entry(S_0, <<>>, <<>>, <<>>)>>]
    /\ UNCHANGED <<sub, dy, fac, tor, cal, pfr, pd, cd, nf, ts, rc, ml, phf>>

\* --------------------------------------- timefrequency_scattering, order 1
\* lines 46, 158 and 206: what the first order subsamples
K1(j1, oversampling) == Max(j1 - oversampling, 0)

\* lines 159 and 207 with an oversampling that is left out of account
K2_no_oversampling(j2, k1, oversampling) == Max(j2 - k1, 0)

\* lines 159 and 207: what the second order subsamples
K2(j2, k1, oversampling) == Max(j2 - k1 - oversampling, 0)

\* lines 45-49: the response of filter n1 before the modulus
FirstOrderU1c(U_0_hat, n1, k1) ==
    Apply(B_subsample_fourier(Apply(U_0_hat, "cdgmm_psi1", n1, 0), k1),
          "ifft", 0, 0)

\* lines 52-56 without the modulus of line 52
FirstOrderRetained_pre_modulus(U_1_c) == Apply(U_1_c, "rfft", 0, 0)

\* lines 52-56: what is appended to U_1_hat_list
FirstOrderRetained(U_1_c) == Apply(Apply(U_1_c, "modulus", 0, 0), "rfft", 0, 0)

\* lines 63-73 with the unpadding of line 70 at the level of the low-pass alone
FirstOrderS1_unpad_k1_J(S_1_c, U_1_m, J, k1, oversampling, average) ==
    IF average
    THEN LET k1_J == Max(J - k1 - oversampling, 0)
             S_1_hat == B_subsample_fourier(S_1_c, k1_J)
             S_1_r == Apply(S_1_hat, "irfft", 0, 0)
         IN  Apply(S_1_r, "unpad", k1_J, 0)
    ELSE Apply(U_1_m, "unpad", k1, 0)

\* lines 63-73: low-pass over time (if average) and unpad
FirstOrderS1(S_1_c, U_1_m, J, k1, oversampling, average) ==
    IF average
    THEN LET k1_J == Max(J - k1 - oversampling, 0)
             S_1_hat == B_subsample_fourier(S_1_c, k1_J)
             S_1_r == Apply(S_1_hat, "irfft", 0, 0)
         IN  Apply(S_1_r, "unpad", k1_J + k1, 0)
    ELSE Apply(U_1_m, "unpad", k1, 0)

\* lines 43-75: one turn of the loop over the first-order filters
FirstOrder ==
    /\ cas.pc = "first"
    /\ cas.n1 < Len(cas.psi1)
    /\ LET n1 == cas.n1
           j1 == cas.psi1[n1 + 1]
           k1 == K1(j1, cas.oversampling)
           U_1_c == FirstOrderU1c(cas.U_0_hat, n1, k1)
           U_1_m == Apply(U_1_c, "modulus", 0, 0)
           U_1_hat == FirstOrderRetained(U_1_c)
           S_1_c == Apply(U_1_hat, "cdgmm_phi", k1, 0)
           S_1 == FirstOrderS1(S_1_c, U_1_m, cas.J, k1, cas.oversampling,
                               cas.average)
       IN  cas' = [cas EXCEPT
                      !.n1 = n1 + 1, !.k1 = k1,
                      !.U_1_hat_list = Append(@, U_1_hat),
                      !.S_1_c_list = Append(@, S_1_c),
                      !.out_S_1 = Append(@, Entry(S_1, <<j1>>, <<n1>>, <<>>))]
    /\ UNCHANGED <<sub, dy, fac, tor, cal, pfr, pd, cd, nf, ts, rc, ml, phf>>

\* lines 90-110: the subsampling of the frequential low-pass of order 1
LowpassSubsampleFrFo(sc, aligned, out_type, oversampling_fr) ==
    LET total_subsample_fr_max ==
            IF aligned THEN sc.J_fr_fo - SeqMax(sc.j0s) ELSE sc.J_fr_fo
        reference_total_subsample_so_far ==
            IF aligned
            THEN (IF out_type = "array" THEN 0 ELSE SeqMax(sc.j0s)) + 0
            ELSE 0
    IN  Max(total_subsample_fr_max - reference_total_subsample_so_far
            - oversampling_fr, 0)

\* lines 78-131: averaging of the first order over frequency
FrequencyAverage ==
    /\ cas.pc = "first"
    /\ cas.n1 = Len(cas.psi1)
    /\ LET sc == cas.sc
           on == cas.average_fr # "false" /\ cas.average
           S_1_list == [i \in 1..Len(cas.out_S_1) |-> cas.out_S_1[i].coef]
           stacked == [ops |-> <<Op("stack", Len(S_1_list), sc.J_pad_fo)>>,
                       last |-> "time",
                       tm |-> S_1_list[Len(S_1_list)].tm, fr |-> 0]
           S_1_tm_T_hat == Apply(B_transpose(stacked), "rfft", 0, 0)
           lowpass_subsample_fr ==
               LowpassSubsampleFrFo(sc, cas.aligned, cas.out_type,
                                    cas.oversampling_fr)
           S_1_fr_T_c == Apply(S_1_tm_T_hat, "cdgmm_phi_f_fo", 0, 0)
           S_1_fr_T_hat == B_subsample_fourier(S_1_fr_T_c, lowpass_subsample_fr)
           S_1_fr_T == Apply(S_1_fr_T_hat, "irfft", 0, 0)
           adjusted == IF sc.J_fr_fo > sc.J_fr THEN lowpass_subsample_fr - 1
                       ELSE lowpass_subsample_fr
           unpadded == IF cas.out_type = "list"
                       THEN Apply(S_1_fr_T, "unpad_fr", adjusted, -1)
                       ELSE Apply(S_1_fr_T, "unpad_fr_max", adjusted, 0)
           S_1_fr == IF cas.average_fr = "global" /\ cas.average
                     THEN Apply(stacked, "mean", 0, 0)
                     ELSE IF on THEN B_transpose(unpadded)
                     ELSE EmptyList
       IN  cas' = [cas EXCEPT
                      !.pc = "second", !.n2 = 0,
                      !.out_S_1 = Append(@, Entry(S_1_fr, <<>>, <<>>, <<>>))]
    /\ UNCHANGED <<sub, dy, fac, tor, cal, pfr, pd, cd, nf, ts, rc, ml, phf>>

\* --------------------------------------- timefrequency_scattering, order 2
Zeros(level) == [ops |-> <<Op("zeros", 0, 0)>>, last |-> "time",
                 tm |-> level, fr |-> 0]

\* lines 153-154 and 202-203 with a strict comparison
SkipPair_strict(j1, j2) == j1 > j2

\* lines 153-154 and 202-203: the pairs the loops skip
SkipPair(j1, j2) == j1 >= j2

\* lines 160-162: the time wavelet psi2[n2] on the retained response n1
SecondOrderY2c(U_1_hat, n2, k1, k2) ==
    Apply(B_subsample_fourier(Apply(U_1_hat, "cdgmm_psi2", n2, k1), k2),
          "ifft", 0, 0)

\* lines 208-210: the low-passed first order S_1_c_list[n1], subsampled
PhiTY2c(S_1_c, k2) == Apply(B_subsample_fourier(S_1_c, k2), "ifft", 0, 0)

RECURSIVE TimeLoop(_, _, _, _, _, _)
(* lines 150-163 (kind "psi") and 200-211 (kind "phi"): the loop over n1,   *)
(* from n1 on.  st holds Y_2_arr (rows), the locals k1 and k2 as the loop   *)
(* leaves them, and whether an assigned row did not have the row length.   *)
TimeLoop(c, kind, n2, j2, n1, st) ==
    IF n1 = Len(c.psi1) THEN st
    ELSE LET j1 == c.psi1[n1 + 1]
             j2_compare == IF kind = "psi" THEN j2
                           ELSE IF c.sc.J_fr_fo > c.sc.J_fr THEN c.J - 1
                           ELSE c.J
         IN  IF SkipPair(j1, j2_compare)
             THEN TimeLoop(c, kind, n2, j2, n1 + 1, st)
             ELSE LET k1 == K1(j1, c.oversampling)
                      k2 == K2(j2, k1, c.oversampling)
                      Y_2_c == IF kind = "psi"
                               THEN SecondOrderY2c(c.U_1_hat_list[n1 + 1],
                                                   n2, k1, k2)
                               ELSE PhiTY2c(c.S_1_c_list[n1 + 1], k2)
                  IN  TimeLoop(c, kind, n2, j2, n1 + 1,
                          [rows |-> [st.rows EXCEPT ![n1 + 1] = Y_2_c],
                           k1 |-> k1, k2 |-> k2,
                           bad |-> st.bad \/ Y_2_c.tm # st.level,
                           level |-> st.level])

\* lines 146-147 and 196-197: Y_2_arr preallocated, with rows of
\* U_0.shape[-1] // 2**max(j2 - oversampling, 0) samples
Preallocated(c, j2) ==
    LET level == Max(j2 - c.oversampling, 0)
    IN  [rows |-> [i \in 1..Len(c.psi1) |-> Zeros(level)],
         k1 |-> c.k1, k2 |-> c.k2, bad |-> FALSE, level |-> level]

\* line 169 and 217: _transpose_fft(Y_2_arr, B, B.fft)
JointHat(n2, pad_fr, level) ==
    Apply(B_transpose([ops |-> <<Op("stack", n2, pad_fr)>>, last |-> "time",
                       tm |-> level, fr |-> 0]), "fft", 0, 0)

\* lines 256-268 and 291-304 with the padding of the slice as the reference
\* in both alignment modes
N1FrSubsample_own_padding(c, j1_fr, n2) ==
    Max(Min(j1_fr, c.sc.max_subsampling_before_phi_fr)
        - PyIndex(c.sc.j0s, n2) - c.oversampling_fr, 0)

\* lines 256-268 and 291-304: the subsampling after the frequential filter
N1FrSubsample(c, j1_fr, n2) ==
    LET reference_subsample_equiv_due_to_pad ==
            IF c.aligned THEN SeqMax(c.sc.j0s) ELSE PyIndex(c.sc.j0s, n2)
    IN  Max(Min(j1_fr, c.sc.max_subsampling_before_phi_fr)
            - reference_subsample_equiv_due_to_pad - c.oversampling_fr, 0)

\* lines 339-364: the subsampling of the frequential low-pass
LowpassSubsampleFr(c, subsample_equiv_due_to_pad, n1_fr_subsample) ==
    LET total_subsample_fr_max ==
            IF c.aligned THEN c.sc.J_fr - SeqMax(c.sc.j0s) ELSE c.sc.J_fr
        total_subsample_so_far == subsample_equiv_due_to_pad + n1_fr_subsample
        reference_total_subsample_so_far ==
            IF c.aligned
            THEN (IF c.out_type = "array" THEN 0 ELSE SeqMax(c.sc.j0s))
                 + n1_fr_subsample
            ELSE total_subsample_so_far
    IN  Max(total_subsample_fr_max - reference_total_subsample_so_far
            - c.oversampling_fr, 0)

\* lines 325-333: unpad_fr
UnpadFr(c, S_2_fr, n2, total_subsample_fr) ==
    IF c.out_type = "list"
    THEN Apply(S_2_fr, "unpad_fr", total_subsample_fr, n2)
    ELSE Apply(S_2_fr, "unpad_fr_max", total_subsample_fr, 0)

\* lines 323-399: _joint_lowpass
joint_lowpass(c, U_2_m, n2, subsample_equiv_due_to_pad, n1_fr_subsample, k1_plus_k2) ==
    LET total_subsample_so_far == subsample_equiv_due_to_pad + n1_fr_subsample
        lowpass_subsample_fr ==
            LowpassSubsampleFr(c, subsample_equiv_due_to_pad, n1_fr_subsample)
        total_subsample_fr ==
            IF c.average_fr = "true"
            THEN total_subsample_so_far + lowpass_subsample_fr
            ELSE total_subsample_so_far
        S_2_fr_0 ==
            IF c.average_fr = "global" THEN Apply(U_2_m, "mean", 0, 0)
            ELSE IF c.average_fr = "true"
            THEN Apply(B_subsample_fourier(
                     Apply(Apply(U_2_m, "rfft", 0, 0), "cdgmm_phi_f",
                           total_subsample_so_far, 0),
                     lowpass_subsample_fr), "irfft", 0, 0)
            ELSE U_2_m
        S_2_fr_1 == IF c.average_fr # "global"
                    THEN UnpadFr(c, S_2_fr_0, n2, total_subsample_fr)
                    ELSE S_2_fr_0
        S_2_fr == B_transpose(S_2_fr_1)
        k2_tm_J == Max(c.J - k1_plus_k2 - c.oversampling, 0)
        S_2_r == IF c.average
                 THEN Apply(B_subsample_fourier(
                          Apply(Apply(S_2_fr, "rfft", 0, 0), "cdgmm_phi",
                                k1_plus_k2, 0),
                          k2_tm_J), "irfft", 0, 0)
                 ELSE S_2_fr
        total_subsample_tm == IF c.average THEN k1_plus_k2 + k2_tm_J
                              ELSE k1_plus_k2
    IN  Apply(S_2_r, "unpad", total_subsample_tm, 0)

\* line 281 without the sign of the second bank
Spin_unsigned(s1_fr, spin_down) == IF spin_down THEN 1 ELSE 0

\* line 281: the spin of bank s1_fr
Spin(s1_fr, spin_down) ==
    IF spin_down THEN (IF s1_fr = 0 THEN 1 ELSE -1) ELSE 0

\* lines 254-285: the entries _frequency_scattering appends for bank s1_fr
frequency_scattering(c, Y_2_hat, j2, n2, pad_fr, k1_plus_k2, s1_fr, spin_down) ==
    [i \in 1..Len(c.sc.psi_j) |->
        LET n1_fr == i - 1
            subsample_equiv_due_to_pad == c.sc.J_pad_max - pad_fr
            j1_fr == c.sc.psi_j[i]
            n1_fr_subsample == N1FrSubsample(c, j1_fr, n2)
            Y_fr_c == Apply(B_subsample_fourier(
                          Apply(Y_2_hat,
                                IF s1_fr = 0 THEN "cdgmm_psi_fr_up"
                                ELSE "cdgmm_psi_fr_down",
                                n1_fr, subsample_equiv_due_to_pad),
                          n1_fr_subsample), "ifft", 0, 0)
            U_2_m == Apply(Y_fr_c, "modulus", 0, 0)
            S_2 == joint_lowpass(c, U_2_m, n2, subsample_equiv_due_to_pad,
                                 n1_fr_subsample, k1_plus_k2)
        IN  Entry(S_2, <<j2, j1_fr>>, <<n2, n1_fr>>,
                  <<Spin(s1_fr, spin_down)>>)]

\* _frequency_lowpass labelling its path with the scale J_fr instead of
\* J_fr - 1
frequency_lowpass_scale_J_fr(c, Y_2_hat, j2, n2, pad_fr, k1_plus_k2) ==
    LET subsample_equiv_due_to_pad == c.sc.J_pad_max - pad_fr
        j1_fr == c.sc.J_fr - 1
        n1_fr_subsample == N1FrSubsample(c, j1_fr, n2)
        Y_fr_c == Apply(B_subsample_fourier(
                      Apply(Y_2_hat, "cdgmm_phi_f",
                            subsample_equiv_due_to_pad, 0),
                      n1_fr_subsample), "ifft", 0, 0)
        U_2_m == Apply(Y_fr_c, "modulus", 0, 0)
        S_2 == joint_lowpass(c, U_2_m, n2, subsample_equiv_due_to_pad,
                             n1_fr_subsample, k1_plus_k2)
    IN  Entry(S_2, <<j2, c.sc.J_fr>>, <<n2, -1>>, <<0>>)

\* lines 288-320: the entry _frequency_lowpass appends
frequency_lowpass(c, Y_2_hat, j2, n2, pad_fr, k1_plus_k2) ==
    LET subsample_equiv_due_to_pad == c.sc.J_pad_max - pad_fr
        j1_fr == c.sc.J_fr - 1
        n1_fr_subsample == N1FrSubsample(c, j1_fr, n2)
        Y_fr_c == Apply(B_subsample_fourier(
                      Apply(Y_2_hat, "cdgmm_phi_f",
                            subsample_equiv_due_to_pad, 0),
                      n1_fr_subsample), "ifft", 0, 0)
        U_2_m == Apply(Y_fr_c, "modulus", 0, 0)
        S_2 == joint_lowpass(c, U_2_m, n2, subsample_equiv_due_to_pad,
                             n1_fr_subsample, k1_plus_k2)
    IN  Entry(S_2, <<j2, j1_fr>>, <<n2, -1>>, <<0>>)

\* lines 138-139: a second-order filter with j2 = 0 is skipped
SecondOrderSkip ==
    /\ cas.pc = "second"
    /\ cas.n2 < Len(cas.psi2)
    /\ cas.psi2[cas.n2 + 1] = 0
    /\ cas' = [cas EXCEPT !.n2 = @ + 1, !.j2 = 0]
    /\ UNCHANGED <<sub, dy, fac, tor, cal, pfr, pd, cd, nf, ts, rc, ml, phf>>

\* lines 137-179: one turn of the loop over the second-order filters
SecondOrder ==
    /\ cas.pc = "second"
    /\ cas.n2 < Len(cas.psi2)
    /\ cas.psi2[cas.n2 + 1] # 0
    /\ LET n2 == cas.n2
           j2 == cas.psi2[n2 + 1]
           pad_fr == IF cas.aligned /\ cas.out_type = "array"
                     THEN cas.sc.J_pad_max ELSE J_pad(cas.sc, n2)
           st == TimeLoop(cas, "psi", n2, j2, 0, Preallocated(cas, j2))
           k1_plus_k2 == st.k1 + st.k2
           Y_2_hat == JointHat(n2, pad_fr, st.level)
           after == [cas EXCEPT !.j2 = j2, !.pad_fr = pad_fr,
                                !.Y_2_arr = st.rows,
                                !.k1 = st.k1, !.k2 = st.k2]
       IN  cas' = IF st.bad THEN [after EXCEPT !.pc = "ValueError"]
                  ELSE IF st.k2 = None THEN [after EXCEPT !.pc = "NameError"]
                  ELSE [after EXCEPT
                      !.n2 = n2 + 1, !.k1_plus_k2 = k1_plus_k2,
                      !.psi_psi_up = @ \o frequency_scattering(
                          cas, Y_2_hat, j2, n2, pad_fr, k1_plus_k2, 0, TRUE),
                      !.psi_psi_down = @ \o frequency_scattering(
                          cas, Y_2_hat, j2, n2, pad_fr, k1_plus_k2, 1, TRUE),
                      !.psi_phi = Append(@, frequency_lowpass(
                          cas, Y_2_hat, j2, n2, pad_fr, k1_plus_k2))]
    /\ UNCHANGED <<sub, dy, fac, tor, cal, pfr, pd, cd, nf, ts, rc, ml, phf>>

\* lines 184-222: the time low-pass with the frequential wavelets
PhiTPsiF ==
    /\ cas.pc = "second"
    /\ cas.n2 = Len(cas.psi2)
    /\ LET j2 == cas.J - 1
           pad_fr == cas.sc.J_pad_max
           st == TimeLoop(cas, "phi", -1, j2, 0, Preallocated(cas, j2))
           k1_plus_k2 == st.k1 + st.k2
           Y_2_hat == JointHat(-1, pad_fr, st.level)
           after == [cas EXCEPT !.j2 = j2, !.pad_fr = pad_fr,
                                !.Y_2_arr = st.rows,
                                !.k1 = st.k1, !.k2 = st.k2]
       IN  cas' = IF st.bad THEN [after EXCEPT !.pc = "ValueError"]
                  ELSE IF st.k2 = None THEN [after EXCEPT !.pc = "NameError"]
                  ELSE [after EXCEPT
                      !.pc = "assemble", !.k1_plus_k2 = k1_plus_k2,
                      !.phi_psi = frequency_scattering(
                          cas, Y_2_hat, j2, -1, pad_fr, k1_plus_k2, 0, FALSE)]
    /\ UNCHANGED <<sub, dy, fac, tor, cal, pfr, pd, cd, nf, ts, rc, ml, phf>>

\* lines 225-241: the output list; outs[0] of an empty list raises
Assemble ==
    /\ cas.pc = "assemble"
    /\ cas' = IF cas.psi_phi = <<>>
              THEN [cas EXCEPT !.pc = "IndexError"]
              ELSE [cas EXCEPT !.pc = "done"]
    /\ UNCHANGED <<sub, dy, fac, tor, cal, pfr, pd, cd, nf, ts, rc, ml, phf>>

\* the output list with the spin-down paths put before the spin-up ones
out_S_down_first ==
    cas.out_S_0 \o cas.out_S_1 \o cas.psi_psi_down \o cas.psi_psi_up
    \o cas.psi_phi \o cas.phi_psi

\* lines 225-233: the returned list out_S, once the call is done
out_S ==
    cas.out_S_0 \o cas.out_S_1 \o cas.psi_psi_up \o cas.psi_psi_down
    \o cas.psi_phi \o cas.phi_psi

\* ------------------------------------------------------------------- meta
(* meta() of the frontend: the identities (j, n, s) of the paths of a call,  *)
(* derived from the filter banks alone, in the order of the output list.    *)
(* An identity shorter than two scales (one spin) is padded with NaN; a     *)
(* value v is <<v>> and NaN is <<>>.                                         *)
NaN == <<>>

MetaPad(t, len) == [i \in 1..len |-> IF i <= Len(t) THEN <<t[i]>> ELSE NaN]

MetaRow(j, n, s) ==
    [j |-> MetaPad(j, 2), n |-> MetaPad(n, 2), s |-> MetaPad(s, 1)]

RECURSIVE Flatten(_)
Flatten(seqs) == IF seqs = <<>> THEN <<>> ELSE Head(seqs) \o Flatten(Tail(seqs))

meta(J, psi1, psi2, sc) ==
    LET n2s == SelectSeq([i \in 1..Len(psi2) |-> i - 1],
                         LAMBDA n2 : psi2[n2 + 1] # 0)
        bank(n2, j2, spin) ==
            [k \in 1..Len(sc.psi_j) |->
                MetaRow(<<j2, sc.psi_j[k]>>, <<n2, k - 1>>, <<spin>>)]
        spinned(spin) ==
            Flatten([i \in 1..Len(n2s) |->
                        bank(n2s[i], psi2[n2s[i] + 1], spin)])
    IN  <<MetaRow(<<>>, <<>>, <<>>)>>
        \o [i \in 1..Len(psi1) |-> MetaRow(<<psi1[i]>>, <<i - 1>>, <<>>)]
        \o <<MetaRow(<<>>, <<>>, <<>>)>>
        \o spinned(1)
        \o spinned(-1)
        \o [i \in 1..Len(n2s) |->
               MetaRow(<<psi2[n2s[i] + 1], sc.J_fr - 1>>, <<n2s[i], -1>>,
                       <<0>>)]
        \o bank(-1, J - 1, 0)

\* the frequential scattering of the time-side runs: one wavelet per spin,
\* every padding the longest, J_fr_fo = J_fr or J_fr + 1
TimeSideSc(n_psi2) ==
    {ScFreq(1, 1 + d, [i \in 1..n_psi2 |-> 0], 1, <<0>>) : d \in {0, 1}}

\* the calls in which the time side varies
TimeSideCalls ==
    UNION {{CasCall(J, psi1, psi2, sc, o, 0, TRUE, av, "true", "array") :
               sc \in TimeSideSc(Len(psi2)),
               o \in 0..MaxOversampling, av \in BOOLEAN} :
           <<J, psi1, psi2>> \in
               UNION {{J} \X JLists(J, MaxPsi1) \X JLists(J, MaxPsi2) :
                      J \in 1..MaxJ}}

\* the averaged calls in which the frequential side and the modes vary: the
\* first-order wavelets have j1 = 0, 1, ..., J - 1 and the last second-order
\* one j2 = J
JointCalls ==
    UNION {{CasCall(MaxJ, [i \in 1..MaxJ |-> i - 1], psi2, sc, 0, ofr, al,
                    TRUE, av_fr, ot) :
               sc \in ScFreqs(Len(psi2)), ofr \in 0..MaxOversamplingFr,
               al \in BOOLEAN,
               av_fr \in {"true", "false", "global"},
               ot \in {"list", "array"}} :
           psi2 \in {l \in JLists(MaxJ, MaxPsi2) :
                        Len(l) = MaxPsi2 /\ l[MaxPsi2] = MaxJ}}

\* ------------------------------------------------- frontend (Torch objects)
\* A tensor is named by the filter it was sampled from (bank, filter, level)
\* and carries its library and dtype.  A bank is a sequence of filters and a
\* filter the sequence of its integer-keyed levels, in key order; a dict bank
\* (phi_f) is a bank of one filter.
NumpyArray(bank, i, k) ==
    [of |-> <<bank, i, k>>, lib |-> "numpy", dtype |-> "float64"]

\* torch.from_numpy(a).float()
FromNumpyFloat(a) == [a EXCEPT !.lib = "torch", !.dtype = "float32"]

Bank(name, shape) ==
    [i \in 1..Len(shape) |-> [k \in 1..shape[i] |-> NumpyArray(name, i, k)]]

RECURSIVE FlatBank(_)
FlatBank(bank) ==
    IF bank = <<>> THEN <<>> ELSE Head(bank) \o FlatBank(Tail(bank))

\* position (from 0) of tensor (i, k) in the iteration over a bank
FlatIndex(bank, i, k) == Len(FlatBank(SubSeq(bank, 1, i - 1))) + k - 1

ConvertBank(bank) ==
    [i \in 1..Len(bank) |->
        [k \in 1..Len(bank[i]) |-> FromNumpyFloat(bank[i][k])]]

NoBuffer == [of |-> <<>>, lib |-> "none", dtype |-> "none"]

\* ScatteringTorch1D.register_filters: one buffer per tensor, n counts tensors
register_filters(o) ==
    LET phi == ConvertBank(o.phi_f)
        psi1 == ConvertBank(o.psi1_f)
        psi2 == ConvertBank(o.psi2_f)
    IN  [o EXCEPT !.phi_f = phi, !.psi1_f = psi1, !.psi2_f = psi2,
                  !.buffers = FlatBank(phi) \o FlatBank(psi1)
                                  \o FlatBank(psi2)]

\* one bank read back from the buffers 'tensor' + str(n), n counting tensors
LoadEach(bank, buffers, n0) ==
    [i \in 1..Len(bank) |->
        [k \in 1..Len(bank[i]) |-> buffers[n0 + FlatIndex(bank, i, k) + 1]]]

\* ScatteringTorch1D.load_filters
load_filters(o) ==
    LET n1 == Len(FlatBank(o.phi_f))
        n2 == n1 + Len(FlatBank(o.psi1_f))
    IN  [o EXCEPT !.phi_f = LoadEach(o.phi_f, o.buffers, 0),
                  !.psi1_f = LoadEach(o.psi1_f, o.buffers, n1),
                  !.psi2_f = LoadEach(o.psi2_f, o.buffers, n2)]

\* TimeFrequencyScatteringTorch1D._register_filters for one name: every
\* tensor of the bank is registered as f'tensor{n}' with the same n, so the
\* buffer keeps the tensor registered last
RegisteredBuffer(bank) ==
    LET flat == FlatBank(ConvertBank(bank))
    IN  IF flat = <<>> THEN NoBuffer ELSE flat[Len(flat)]

\* TimeFrequencyScatteringTorch1D.register_filters: names phi_f, psi1_f of
\* the object, then phi_f_fr, psi1_f_fr_up, psi1_f_fr_down of sc_freq
jtfs_register_filters(o) ==
    [o EXCEPT !.phi_f = ConvertBank(o.phi_f),
              !.psi1_f = ConvertBank(o.psi1_f),
              !.phi_f_fr = ConvertBank(o.phi_f_fr),
              !.psi1_f_fr_up = ConvertBank(o.psi1_f_fr_up),
              !.psi1_f_fr_down = ConvertBank(o.psi1_f_fr_down),
              !.buffers = <<RegisteredBuffer(o.phi_f),
                            RegisteredBuffer(o.psi1_f),
                            RegisteredBuffer(o.phi_f_fr),
                            RegisteredBuffer(o.psi1_f_fr_up),
                            RegisteredBuffer(o.psi1_f_fr_down)>>]

\* TimeFrequencyScatteringTorch1D._load_filters for one name: every tensor
\* of the bank is read from f'tensor{n}' with the same n
LoadName(bank, buffers, n) ==
    [i \in 1..Len(bank) |-> [k \in 1..Len(bank[i]) |-> buffers[n + 1]]]

\* TimeFrequencyScatteringTorch1D.load_filters
jtfs_load_filters(o) ==
    [o EXCEPT !.phi_f = LoadName(o.phi_f, o.buffers, 0),
              !.psi1_f = LoadName(o.psi1_f, o.buffers, 1),
              !.phi_f_fr = LoadName(o.phi_f_fr, o.buffers, 2),
              !.psi1_f_fr_up = LoadName(o.psi1_f_fr_up, o.buffers, 3),
              !.psi1_f_fr_down = LoadName(o.psi1_f_fr_down, o.buffers, 4)]

\* the filters a call hands to the core
FiltersOf(o) ==
    <<o.phi_f, o.psi1_f, o.psi2_f, o.phi_f_fr, o.psi1_f_fr_up,
      o.psi1_f_fr_down>>

\* shapes of the banks: psi1 filters hold level 0 only, the others up to
\* MaxTorLevels levels each
TorShapes == UNION {[1..n -> 1..MaxTorLevels] : n \in 1..MaxTorFilters}

TorSignals == 0..1

TorIdle ==
    [pc |-> "idle", cls |-> "none", phi_f |-> <<>>, psi1_f |-> <<>>,
     psi2_f |-> <<>>, phi_f_fr |-> <<>>, psi1_f_fr_up |-> <<>>,
     psi1_f_fr_down |-> <<>>, buffers |-> <<>>, built |-> <<>>,
     outs |-> [x \in TorSignals |-> {}], calls |-> 0]

\* the object as create_filters leaves it, before the filters are registered
TorCreated(cls, n_phi, n_psi1, psi2, n_phi_fr, psi_fr) ==
    [TorIdle EXCEPT
        !.pc = "built", !.cls = cls,
        !.phi_f = Bank("phi_f", <<n_phi>>),
        !.psi1_f = Bank("psi1_f", [i \in 1..n_psi1 |-> 1]),
        !.psi2_f = Bank("psi2_f", psi2),
        !.phi_f_fr = Bank("phi_f_fr", <<n_phi_fr>>),
        !.psi1_f_fr_up = Bank("psi1_f_fr_up", psi_fr),
        !.psi1_f_fr_down = Bank("psi1_f_fr_down", psi_fr)]

\* ScatteringTorch1D.__init__ and TimeFrequencyScatteringTorch1D.__init__
TorBuilt ==
    {LET o == register_filters(
                  TorCreated("ScatteringTorch1D", n_phi, n_psi1, psi2, 0,
                             <<>>))
     IN  [o EXCEPT !.built = FiltersOf(o)] :
        n_phi \in 1..MaxTorLevels, n_psi1 \in 1..MaxTorFilters,
        psi2 \in TorShapes}
    \cup
    {LET o == jtfs_register_filters(
                  TorCreated("TimeFrequencyScatteringTorch1D", n_phi, n_psi1,
                             psi2, n_phi_fr, psi_fr))
     IN  [o EXCEPT !.built = FiltersOf(o)] :
        n_phi \in 1..MaxTorLevels, n_psi1 \in 1..MaxTorFilters,
        psi2 \in {<<MaxTorLevels>>}, n_phi_fr \in 1..MaxTorLevels,
        psi_fr \in TorShapes}

\* ScatteringTorch1D.scattering(x): load_filters, then the core, which reads
\* the filters; the output is a function of the signal and the filters read
Scattering1D ==
    /\ tor.pc = "built" /\ tor.cls = "ScatteringTorch1D"
    /\ tor.calls < MaxCalls
    /\ \E x \in TorSignals :
        LET o == load_filters(tor)
        IN  tor' = [o EXCEPT !.calls = @ + 1,
                             !.outs[x] = @ \cup {<<x, FiltersOf(o)>>}]
    /\ UNCHANGED <<sub, dy, fac, cas, cal, pfr, pd, cd, nf, ts, rc, ml, phf>>

\* TimeFrequencyScatteringTorch1D.scattering(x)
ScatteringJTFS ==
    /\ tor.pc = "built" /\ tor.cls = "TimeFrequencyScatteringTorch1D"
    /\ tor.calls < MaxCalls
    /\ \E x \in TorSignals :
        LET o == jtfs_load_filters(tor)
        IN  tor' = [o EXCEPT !.calls = @ + 1,
                             !.outs[x] = @ \cup {<<x, FiltersOf(o)>>}]
    /\ UNCHANGED <<sub, dy, fac, cas, cal, pfr, pd, cd, nf, ts, rc, ml, phf>>

\* ------------------------------------------------ filter_bank (calibration)
(* A frequency or width is the real number m * 2^(-e/Q) / FixedOne, kept as *)
(* the pair of its fixed-point mantissa m and the number e of steps of     *)
(* 1/Q octave taken below it, so that the multiplication by 2^(-1/Q) is    *)
(* exact; sums and comparisons are made on the fixed-point value.          *)
FixedOne == 4096 * 4096

Num(m, e) == [m |-> m, e |-> e]
Plain(v) == Num(v, 0)

\* FixedOne * 2^(-r/Q) for r = 0..Q-1
RootTab ==
    <<  <<16777216>>,
        <<16777216, 11863283>>,
        <<16777216, 13316085, 10568984>>,
        <<16777216, 14107901, 11863283, 9975792>>,
        <<16777216, 14605415, 12714752, 11068835, 9635980>>  >>

\* the product a * f / FixedOne of two fixed-point numbers, in 32 bits
MulFixed(a, f) ==
    LET ah == a \div 4096
        al == a % 4096
        fh == f \div 4096
        fl == f % 4096
    IN  ah * fh + (ah * fl + al * fh) \div 4096

\* the fixed-point value of a number of the bank with Q wavelets per octave
Val(x, Q) == MulFixed(x.m, RootTab[Q][(x.e % Q) + 1]) \div Pow2(x.e \div Q)

\* x * 1 / math.pow(2., 1. / Q)
TimesFactor(x) == [x EXCEPT !.e = @ + 1]

\* compute_xi_max(Q) = max(1 / (1 + 2^(3/Q)), 0.35), times FixedOne
compute_xi_max(Q) == <<5872026, 5872026, 5872026, 6255970, 6668961>>[Q]

\* compute_sigma_psi(compute_xi_max(Q), Q, r = sqrt(0.5)), times FixedOne
compute_sigma_psi_max(Q) == <<2351007, 1210107, 811192, 649430, 554340>>[Q]

\* sigma0 = 0.1, times FixedOne
Sigma0 == (FixedOne + 5) \div 10

\* math.floor(-math.log2(u / FixedOne)) for 1 <= u <= FixedOne
FloorNegLog2Fixed(u) ==
    CHOOSE m \in 0..24 : u * Pow2(m) <= FixedOne /\ u * Pow2(m + 1) > FixedOne

\* get_max_dyadic_subsampling on fixed-point values
max_dyadic_subsampling(xi, sigma, alpha) ==
    LET upper_bound == Min(xi + alpha * sigma, FixedOne \div 2)
    IN  FloorNegLog2Fixed(upper_bound) - 1

Alpha == 4

\* a step of a whole octave: xi and sigma multiplied by 1/2
move_one_octave_step(cv, Q) ==
    LET xi == [cv.xi EXCEPT !.e = @ + Q]
        sigma == [cv.sigma EXCEPT !.e = @ + Q]
    IN  [key |-> cv.key + 1, xi |-> xi, sigma |-> sigma,
         j |-> max_dyadic_subsampling(Val(xi, Q), Val(sigma, Q), Alpha)]

\* move_one_dyadic_step(cv, Q, alpha)
move_one_dyadic_step(cv, Q) ==
    LET xi == TimesFactor(cv.xi)
        sigma == TimesFactor(cv.sigma)
    IN  [key |-> cv.key + 1, xi |-> xi, sigma |-> sigma,
         j |-> max_dyadic_subsampling(Val(xi, Q), Val(sigma, Q), Alpha)]

\* lines 533-542: the loop over the dyadic wavelets
RECURSIVE DyadicLoop(_, _, _, _, _)
DyadicLoop(current, out, sigma_min, Q, xi_min) ==
    IF Val(current.sigma, Q) > sigma_min /\ Val(current.xi, Q) > xi_min
    THEN DyadicLoop(move_one_dyadic_step(current, Q),
                    [xi |-> Append(out.xi, current.xi),
                     sigma |-> Append(out.sigma, current.sigma),
                     j |-> Append(out.j, current.j)],
                    sigma_min, Q, xi_min)
    ELSE out

\* lines 543-553: the wavelets between last_xi and 0
RECURSIVE Intermediate(_, _, _, _, _, _)
Intermediate(q, out, last_xi, sigma_min, Q, xi_min) ==
    IF q > Q - 1 THEN out
    ELSE LET new_xi == Num((last_xi.m * (Q - q)) \div Q, last_xi.e)
         IN  IF Val(new_xi, Q) < xi_min THEN out
             ELSE Intermediate(q + 1,
                     [xi |-> Append(out.xi, new_xi),
                      sigma |-> Append(out.sigma, Plain(sigma_min)),
                      j |-> Append(out.j, max_dyadic_subsampling(
                                Val(new_xi, Q), sigma_min, Alpha))],
                     last_xi, sigma_min, Q, xi_min)

\* compute_params_filterbank that keeps last_xi = sigma_max after the loop
compute_params_filterbank_last_sigma_max(sigma_min, Q, xi_min_arg) ==
    LET xi_min == IF xi_min_arg = None THEN -FixedOne ELSE xi_min_arg
        xi_max == compute_xi_max(Q)
        sigma_max == compute_sigma_psi_max(Q)
        empty == [xi |-> <<>>, sigma |-> <<>>, j |-> <<>>]
        exceptional == sigma_max <= sigma_min \/ xi_max <= xi_min
        dyadic == IF exceptional THEN empty
                  ELSE DyadicLoop([key |-> 0, j |-> 0, xi |-> Plain(xi_max),
                                   sigma |-> Plain(sigma_max)],
                                  empty, sigma_min, Q, xi_min)
    IN  Intermediate(1, dyadic, Plain(sigma_max), sigma_min, Q, xi_min)

\* compute_params_filterbank(sigma_min, Q, r_psi, alpha, xi_min)
compute_params_filterbank(sigma_min, Q, xi_min_arg) ==
    LET xi_min == IF xi_min_arg = None THEN -FixedOne ELSE xi_min_arg
        xi_max == compute_xi_max(Q)
        sigma_max == compute_sigma_psi_max(Q)
        empty == [xi |-> <<>>, sigma |-> <<>>, j |-> <<>>]
        exceptional == sigma_max <= sigma_min \/ xi_max <= xi_min
        dyadic == IF exceptional THEN empty
                  ELSE DyadicLoop([key |-> 0, j |-> 0, xi |-> Plain(xi_max),
                                   sigma |-> Plain(sigma_max)],
                                  empty, sigma_min, Q, xi_min)
        last_xi == IF exceptional THEN Plain(sigma_max)
                   ELSE dyadic.xi[Len(dyadic.xi)]
    IN  Intermediate(1, dyadic, last_xi, sigma_min, Q, xi_min)

\* Q as the caller gives it: an int, or a tuple (Q1, Q2)
QArgs ==
    {<<"int", q>> : q \in 0..MaxQ}
    \cup {<<"tuple", q1, q2>> : q1 \in 0..MaxQ, q2 \in 0..MaxQ2}

\* Q read as (Q, 1) whether or not it is a tuple
Q1Q2_first_only(Q) == <<Q[2], 1>>

\* Q1, Q2 = Q if isinstance(Q, tuple) else (Q, 1)
Q1Q2(Q) == IF Q[1] = "tuple" THEN <<Q[2], Q[3]>> ELSE <<Q[2], 1>>

\* xi_min as the callers give it: None, or 2 / N for N = 2^J_support
XiMinArgs == {None} \cup {(2 * FixedOne) \div Pow2(s) : s \in 2..(CalMaxJ + 2)}

CalIdle ==
    [pc |-> "idle", J |-> 0, Q |-> <<"int", 1>>, T |-> 1, xi_min |-> None,
     sigma_min |-> 0, sigma_low |-> 0,
     bank1 |-> [xi |-> <<>>, sigma |-> <<>>, j |-> <<>>],
     bank2 |-> [xi |-> <<>>, sigma |-> <<>>, j |-> <<>>]]

CalInit ==
    \E J \in 0..CalMaxJ, Q \in QArgs, T \in 1..CalMaxT, xi_min \in XiMinArgs :
        cal = [CalIdle EXCEPT !.pc = "call", !.J = J, !.Q = Q, !.T = T,
                              !.xi_min = xi_min]

\* calibrate_scattering_filters, lines 621-623: the check of Q
CalibrateCheck ==
    /\ cal.pc = "call"
    /\ cal' = IF Q1Q2(cal.Q)[1] < 1 \/ Q1Q2(cal.Q)[2] < 1
              THEN [cal EXCEPT !.pc = "ValueError"]
              ELSE [cal EXCEPT !.pc = "checked"]
    /\ UNCHANGED <<sub, dy, fac, cas, tor, pfr, pd, cd, nf, ts, rc, ml, phf>>

\* calibrate_scattering_filters, lines 625-636: the parameters of both banks
CalibrateCompute ==
    /\ cal.pc = "checked"
    /\ LET sigma_min == Sigma0 \div Pow2(cal.J)
       IN  cal' = [cal EXCEPT
               !.pc = "done",
               !.sigma_min = sigma_min,
               !.bank1 = compute_params_filterbank(
                             sigma_min, Q1Q2(cal.Q)[1], cal.xi_min),
               !.bank2 = compute_params_filterbank(
                             sigma_min, Q1Q2(cal.Q)[2], cal.xi_min),
               !.sigma_low = Sigma0 \div cal.T]
    /\ UNCHANGED <<sub, dy, fac, cas, tor, pfr, pd, cd, nf, ts, rc, ml, phf>>

\* ------------------------------------------ filter_bank (psi_fr_factory)
\* conj_fr(x): out[0] = x[0], out[1:] = x[:0:-1], frequency along the first
\* axis
conj_fr_reversed(x) == [i \in 1..Len(x) |-> x[Len(x) - i + 1]]

conj_fr(x) ==
    [i \in 1..Len(x) |-> IF i = 1 THEN x[1] ELSE x[Len(x) - i + 2]]

\* compute_temporal_support(psi.T): a function of the samples of psi only
TemporalSupportOf(psi) == [support_of |-> psi]

\* lines 987-1024: the levels j0 > 0 at which a wavelet is sampled, from the
\* j0 of the paddings taken from the longest padding to the shortest; the
\* loop is left at the first valid j0 >= cut (the scale or the width of the
\* wavelet exceeds what the padding allows)
RECURSIVE LevelsLoop(_, _, _, _, _)
LevelsLoop(rest, j0_prev, acc, j0_max, cut) ==
    IF rest = <<>> THEN acc
    ELSE LET j0 == Head(rest)
         IN  IF j0 <= 0 \/ j0 = j0_prev \/ (j0_max # None /\ j0 > j0_max)
             THEN LevelsLoop(Tail(rest), j0_prev, acc, j0_max, cut)
             ELSE IF j0 >= cut THEN acc
             ELSE LevelsLoop(Tail(rest), j0, acc \cup {j0}, j0_max, cut)

Reversed(s) == [i \in 1..Len(s) |-> s[Len(s) - i + 1]]

\* lines 980-1026: the spin-down wavelet n1_fr at all its levels
PsiDown(p, n1_fr) ==
    LET levels == {0} \cup LevelsLoop(Reversed(p.j0s), -1, {}, p.j0_max,
                                      p.cut[n1_fr + 1])
        psi == [j0 \in levels |->
                   SampledFilter(p.N \div Pow2(j0), p.seed + j0, n1_fr)]
    IN  [levels |-> psi,
         width |-> [j0 \in levels |-> TemporalSupportOf(psi[j0])],
         j |-> <<>>]

\* lines 1028-1036: the spin-up wavelet from the spin-down one
PsiUp(psi_down) ==
    [levels |-> [j0 \in DOMAIN psi_down.levels |->
                    conj_fr(psi_down.levels[j0])],
     width |-> psi_down.width,
     j |-> <<>>]

PfrIdle ==
    [pc |-> "idle", N |-> 1, seed |-> 0, j1s |-> <<>>, j0s |-> <<>>,
     j0_max |-> None, cut |-> <<>>, psi1_f_fr_up |-> <<>>,
     psi1_f_fr_down |-> <<>>]

\* the call: N = 2**J_pad_fr_max_init, j1s from the calibration, the j0 of
\* the paddings (none shorter than one sample), j0_max from the widest
\* wavelet
PfrInit ==
    \E J_support \in 1..MaxPadFr, seed \in 0..MaxSeed, n \in 1..MaxPsiFr,
       n_psi2 \in 1..MaxPsi2, j0_max \in {None} \cup 0..MaxJ0 :
    \E j1s \in {l \in JLists(MaxJfr, n) : Len(l) = n},
       j0s \in {l \in J0Lists(n_psi2) : \A i \in 1..n_psi2 : l[i] <= J_support},
       cut \in [1..n -> 1..(MaxJ0 + 1)] :
        pfr = [PfrIdle EXCEPT !.pc = "sample", !.N = Pow2(J_support),
                              !.seed = seed, !.j1s = j1s, !.j0s = j0s,
                              !.j0_max = j0_max, !.cut = cut]

\* lines 980-1037: one turn of the loop over n1_fr
PsiFrSample ==
    /\ pfr.pc = "sample"
    /\ Len(pfr.psi1_f_fr_down) < Len(pfr.j1s)
    /\ LET n1_fr == Len(pfr.psi1_f_fr_down)
           psi_down == PsiDown(pfr, n1_fr)
       IN  pfr' = [pfr EXCEPT
               !.psi1_f_fr_down = Append(@, psi_down),
               !.psi1_f_fr_up = Append(@, PsiUp(psi_down))]
    /\ UNCHANGED <<sub, dy, fac, cas, tor, cal, pd, cd, nf, ts, rc, ml, phf>>

\* lines 1039-1052: the meta information of both banks ('j' of every level;
\* 'xi' and 'sigma' are filled the same way)
EmbedMeta(bank, j1s) ==
    [i \in 1..Len(bank) |->
        [bank[i] EXCEPT !.j = [j0 \in DOMAIN bank[i].levels |-> j1s[i]]]]

PsiFrMeta ==
    /\ pfr.pc = "sample"
    /\ Len(pfr.psi1_f_fr_down) = Len(pfr.j1s)
    /\ pfr' = [pfr EXCEPT
           !.pc = "done",
           !.psi1_f_fr_down = EmbedMeta(@, pfr.j1s),
           !.psi1_f_fr_up = EmbedMeta(@, pfr.j1s)]
    /\ UNCHANGED <<sub, dy, fac, cas, tor, cal, pd, cd, nf, ts, rc, ml, phf>>

\* ------------------------------------------------------ backend (pad, unpad)
\* a Python slice bound i on a sequence of length L
SliceBound(i, L) == IF i < 0 THEN Max(i + L, 0) ELSE Min(i, L)

\* the slice that also keeps the sample of index i1
unpad_inclusive(x, i0, i1) ==
    SubSeq(x, SliceBound(i0, Len(x)) + 1, SliceBound(i1 + 1, Len(x)))

\* unpad(x, i0, i1) = x[..., i0:i1]
unpad(x, i0, i1) ==
    SubSeq(x, SliceBound(i0, Len(x)) + 1, SliceBound(i1, Len(x)))

ZerosOfLen(n) == [i \in 1..n |-> 0]

\* the mirror image of the c samples that follow the first one
MirrorLeft(a, c) == [i \in 1..c |-> a[c + 2 - i]]
\* the mirror image of the c samples that precede the last one
MirrorRight(a, c) == [i \in 1..c |-> a[Len(a) - i]]

\* reflect padding, grown by at most N - 1 samples at a time so that each
\* mirror is about an edge sample, which is not repeated; a signal of one
\* sample is repeated
RECURSIVE ReflectLeft(_, _, _)
ReflectLeft(a, n, N) ==
    IF n = 0 THEN a
    ELSE IF N = 1 THEN ReflectLeft(<<a[1]>> \o a, n - 1, N)
    ELSE LET c == Min(n, N - 1)
         IN  ReflectLeft(MirrorLeft(a, c) \o a, n - c, N)

RECURSIVE ReflectRight(_, _, _)
ReflectRight(a, n, N) ==
    IF n = 0 THEN a
    ELSE IF N = 1 THEN ReflectRight(a \o <<a[Len(a)]>>, n - 1, N)
    ELSE LET c == Min(n, N - 1)
         IN  ReflectRight(a \o MirrorRight(a, c), n - c, N)

\* pad(x, pad_left, pad_right, pad_mode) along the last axis
pad(x, pad_left, pad_right, pad_mode) ==
    IF pad_mode = "zero"
    THEN ZerosOfLen(pad_left) \o x \o ZerosOfLen(pad_right)
    ELSE ReflectRight(ReflectLeft(x, pad_left, Len(x)), pad_right, Len(x))

\* the signals of the padding test: N consecutive numbers
Arange(start, N) == [i \in 1..N |-> start + i]

PadIdle ==
    [pc |-> "idle", x |-> <<>>, pad_left |-> 0, pad_right |-> 0,
     pad_mode |-> "zero", padded |-> <<>>, out |-> <<>>]

PadInit ==
    \E N \in 1..MaxLen, start \in 0..MaxSeed, pad_left \in 0..MaxPadAmount,
       pad_right \in 0..MaxPadAmount, pad_mode \in {"zero", "reflect"} :
        pd = [PadIdle EXCEPT !.pc = "call", !.x = Arange(start, N),
                             !.pad_left = pad_left, !.pad_right = pad_right,
                             !.pad_mode = pad_mode]

Pad ==
    /\ pd.pc = "call"
    /\ pd' = [pd EXCEPT !.pc = "padded",
                        !.padded = pad(pd.x, pd.pad_left, pd.pad_right,
                                       pd.pad_mode)]
    /\ UNCHANGED <<sub, dy, fac, cas, tor, cal, pfr, cd, nf, ts, rc, ml, phf>>

Unpad ==
    /\ pd.pc = "padded"
    /\ pd' = [pd EXCEPT !.pc = "done",
                        !.out = unpad(pd.padded, pd.pad_left,
                                      pd.pad_left + Len(pd.x))]
    /\ UNCHANGED <<sub, dy, fac, cas, tor, cal, pfr, cd, nf, ts, rc, ml, phf>>

\* ------------------------------------------------- backend (Torch, cdgmm)
\* a tensor as cdgmm sees it: kind of dtype ("complex", "float", "int"), its
\* precision in bits per real number, shape and device
Tensor(kind, bits, shape, device) ==
    [kind |-> kind, bits |-> bits, shape |-> shape, device |-> device]

\* the Python slices s[-n:] and s[-n:-1] and s[:-1] of a tuple
LastN(s, n) == SubSeq(s, Max(Len(s) - n, 0) + 1, Len(s))
LastNButLast(s, n) == SubSeq(s, Max(Len(s) - n, 0) + 1, Len(s) - 1)
ButLast(s) == SubSeq(s, 1, Len(s) - 1)

\* shapes that broadcast together, aligned on the last dimension, and the
\* shape of the result
Broadcastable(sa, sb) ==
    \A i \in 1..Min(Len(sa), Len(sb)) :
        LET a == sa[Len(sa) - i + 1]
            b == sb[Len(sb) - i + 1]
        IN  a = b \/ a = 1 \/ b = 1

BroadcastShape(sa, sb) ==
    LET n == Max(Len(sa), Len(sb))
        At(s, i) == IF i > n - Len(s) THEN s[i - (n - Len(s))] ELSE 1
    IN  [i \in 1..n |-> Max(At(sa, i), At(sb, i))]

Returned(val) == [raised |-> "none", by |-> "none", shapes |-> <<>>,
                  val |-> val]
Raised(exc, by, shapes) == [raised |-> exc, by |-> by, shapes |-> shapes,
                            val |-> <<>>]

\* A * B and torch.multiply(A, B) of the library: tensors on different
\* devices or of shapes that do not broadcast raise inside the library, the
\* others return the broadcast product in the promoted dtype
TorchMultiply(A, B) ==
    IF A.device # B.device THEN Raised("RuntimeError", "torch", <<>>)
    ELSE IF ~Broadcastable(A.shape, B.shape)
    THEN Raised("RuntimeError", "torch", <<>>)
    ELSE Returned(Tensor(
             IF "complex" \in {A.kind, B.kind} THEN "complex"
             ELSE IF "float" \in {A.kind, B.kind} THEN "float" ELSE "int",
             Max(A.bits, B.bits), BroadcastShape(A.shape, B.shape),
             A.device))

\* TorchBackend.cdgmm(A, B, out)
cdgmm(A, B, out) ==
    IF out # None THEN TorchMultiply(A, B)
    ELSE IF B.kind # "float" /\ B.kind # "complex"
    THEN Raised("TypeError", "cdgmm", <<>>)
    ELSE IF A.kind # "complex" THEN Raised("TypeError", "cdgmm", <<>>)
    ELSE LET sa == A.shape
             sb == B.shape
             nb == Len(sb)
         IN  IF ~(\/ LastN(sa, nb) = sb
                  \/ /\ (sa[Len(sa)] = 1 \/ sb[Len(sb)] = 1)
                     /\ LastNButLast(sa, nb) = ButLast(sb))
             THEN Raised("RuntimeError", "cdgmm", <<sa, sb>>)
             ELSE IF B.device[1] = "cuda" /\ A.device[1] = "cuda"
                     /\ A.device[2] # B.device[2]
             THEN Raised("TypeError", "cdgmm", <<>>)
             ELSE IF B.device[1] = "cuda" /\ A.device[1] # "cuda"
             THEN Raised("TypeError", "cdgmm", <<>>)
             ELSE IF B.device[1] = "cpu" /\ A.device[1] = "cuda"
             THEN Raised("TypeError", "cdgmm", <<>>)
             ELSE TorchMultiply(A, B)

Shapes(minlen, maxlen) == UNION {[1..n -> 1..MaxDim] : n \in minlen..maxlen}
Devices == {<<"cpu", 0>>, <<"cuda", 0>>, <<"cuda", 1>>}

CdIdle ==
    [pc |-> "idle", A |-> Tensor("complex", 32, <<1>>, <<"cpu", 0>>),
     B |-> Tensor("complex", 32, <<1>>, <<"cpu", 0>>), out |-> None,
     res |-> Returned(<<>>)]

CdInit ==
    \E ka \in {"complex", "float"}, kb \in {"complex", "float", "int"},
       ba \in {32, 64}, bb \in {32, 64}, sa \in Shapes(2, 3),
       sb \in Shapes(1, 2), da \in Devices, db \in Devices,
       out \in {None, 1} :
        cd = [CdIdle EXCEPT !.pc = "call", !.A = Tensor(ka, ba, sa, da),
                            !.B = Tensor(kb, bb, sb, db), !.out = out]

Cdgmm ==
    /\ cd.pc = "call"
    /\ cd' = [cd EXCEPT !.pc = "done", !.res = cdgmm(cd.A, cd.B, cd.out)]
    /\ UNCHANGED <<sub, dy, fac, cas, tor, cal, pfr, pd, nf, ts, rc, ml, phf>>

\* ------------------------------------- filter_bank (get_normalizing_factor)
(* The filter is given by the moduli |h_real| of its samples in time, in    *)
(* units of 1e-8.  A factor is 1 / den, or 1 / sqrt(den) when root is set;  *)
(* a division by a zero sum gives Inf.                                      *)
ZeroSumThreshold == 10

Inf == [inf |-> TRUE, den |-> 0, root |-> FALSE]
OneOver(den, root) ==
    IF den = 0 THEN Inf ELSE [inf |-> FALSE, den |-> den, root |-> root]

\* np.abs(h_real).sum() and (np.abs(h_real)**2).sum()
AbsSum(h_abs) == SumTo([i \in 1..Len(h_abs) |-> h_abs[i]], Len(h_abs))
AbsSquareSum(h_abs) ==
    SumTo([i \in 1..Len(h_abs) |-> h_abs[i] * h_abs[i]], Len(h_abs))

NormReturned(f) == [raised |-> "none", factor |-> f]
NormRaised(exc) == [raised |-> exc, factor |-> Inf]

\* get_normalizing_factor without the check of the absolute sum
get_normalizing_factor_unchecked(h_abs, normalize) ==
    IF normalize = "l1" THEN NormReturned(OneOver(AbsSum(h_abs), FALSE))
    ELSE IF normalize = "l2"
    THEN NormReturned(OneOver(AbsSquareSum(h_abs), TRUE))
    ELSE NormRaised("ValueError")

\* get_normalizing_factor(h_f, normalize), h_abs = np.abs(ifft(h_f))
get_normalizing_factor(h_abs, normalize) ==
    IF AbsSum(h_abs) < ZeroSumThreshold THEN NormRaised("ValueError")
    ELSE IF normalize = "l1"
    THEN NormReturned(OneOver(AbsSum(h_abs), FALSE))
    ELSE IF normalize = "l2"
    THEN NormReturned(OneOver(AbsSquareSum(h_abs), TRUE))
    ELSE NormRaised("ValueError")

NormIdle ==
    [pc |-> "idle", caller |-> "morlet_1d", h_abs |-> <<>>,
     normalize |-> "l1", res |-> NormRaised("none"), scaled_by |-> <<>>]

\* morlet_1d or gauss_1d about to normalize the filter it has sampled
NormInit ==
    \E caller \in {"morlet_1d", "gauss_1d"}, n \in 1..NormMaxLen,
       normalize \in {"l1", "l2", "max"} :
    \E h_abs \in [1..n -> 0..NormMaxUnits] :
        nf = [NormIdle EXCEPT !.pc = "call", !.caller = caller,
                              !.h_abs = h_abs, !.normalize = normalize]

GetNormalizingFactor ==
    /\ nf.pc = "call"
    /\ LET res == get_normalizing_factor(nf.h_abs, nf.normalize)
       IN  nf' = [nf EXCEPT
               !.pc = IF res.raised = "none" THEN "factor" ELSE res.raised,
               !.res = res]
    /\ UNCHANGED <<sub, dy, fac, cas, tor, cal, pfr, pd, cd, ts, rc, ml, phf>>

\* morlet_f *= factor (line 142), g_f *= factor (line 221), and return
ScaleFilter ==
    /\ nf.pc = "factor"
    /\ nf' = [nf EXCEPT !.pc = "done", !.scaled_by = <<nf.res.factor>>]
    /\ UNCHANGED <<sub, dy, fac, cas, tor, cal, pfr, pd, cd, ts, rc, ml, phf>>

\* ----------------------------------- filter_bank (compute_temporal_support)
(* The filters are given by the moduli |h| of their samples in time, one    *)
(* row per filter; criterion_amplitude is a fraction <<num, den>>.          *)
SetMax(S) == CHOOSE m \in S : \A v \in S : v <= m
SetMin(S) == CHOOSE m \in S : \A v \in S : m <= v

\* h.shape[1] // 2
half_support(h) == Len(h[1]) \div 2

\* np.max(np.abs(h[:, :half_support]), axis=0)
hhalf(h) ==
    [i \in 1..half_support(h) |-> SetMax({h[r][i] : r \in 1..Len(h)})]

\* np.where(hhalf <= criterion_amplitude * max_amplitude)[0], from index 0
meets_criterion_idxs(h, criterion) ==
    LET max_amplitude == SetMax({hhalf(h)[i] : i \in 1..half_support(h)})
    IN  {i - 1 : i \in {k \in 1..half_support(h) :
             hhalf(h)[k] * criterion[2] <= criterion[1] * max_amplitude}}

TsReturned(N, warnings) == [raised |-> "none", N |-> N, warnings |-> warnings]
TsRaised(exc) == [raised |-> exc, N |-> None, warnings |-> <<>>]

\* compute_temporal_support(h_f, criterion_amplitude, warn), h = |ifft(h_f)|;
\* the maximum of an empty hhalf (a filter of one sample) raises ValueError
compute_temporal_support(h, criterion, warn) ==
    IF half_support(h) = 0 THEN TsRaised("ValueError")
    ELSE IF meets_criterion_idxs(h, criterion) # {}
    THEN LET N == SetMin(meets_criterion_idxs(h, criterion)) + 1
         IN  TsReturned(IF N = half_support(h) THEN N - 1 ELSE N, <<>>)
    ELSE TsReturned(half_support(h),
                    IF warn THEN <<"UserWarning">> ELSE <<>>)

\* a filter "centered and whose absolute value is symmetric" of n samples,
\* from its samples 0 .. n // 2
SymmetricRow(first, n) ==
    [i \in 1..n |-> IF i - 1 <= n \div 2 THEN first[i] ELSE first[n - i + 2]]

\* criterion_amplitude: the default 1e-3, and 1/2
CriterionArgs == {<<1, 1000>>, <<1, 2>>}

TsIdle ==
    [pc |-> "idle", caller |-> "none", h |-> <<>>, criterion |-> <<1, 1000>>,
     warn |-> FALSE, res |-> TsRaised("none")]

\* the call of scattering_filter_factory (lines 823-824: one row, warn left
\* to its default), or a call with one or two rows and either value of warn
TsInit ==
    \E n \in 1..TsMaxLen, criterion \in CriterionArgs :
    \E f1, f2 \in [1..(n \div 2 + 1) -> 0..TsMaxAmp] :
    \E caller \in {"scattering_filter_factory", "direct"},
       rows \in 1..2, warn \in BOOLEAN :
        /\ caller = "scattering_filter_factory" => rows = 1 /\ ~warn
        /\ rows = 1 => f2 = f1
        /\ ts = [TsIdle EXCEPT
               !.pc = "call", !.caller = caller, !.criterion = criterion,
               !.warn = warn,
               !.h = IF rows = 1 THEN <<SymmetricRow(f1, n)>>
                     ELSE <<SymmetricRow(f1, n), SymmetricRow(f2, n)>>]

ComputeTemporalSupport ==
    /\ ts.pc = "call"
    /\ LET res == compute_temporal_support(ts.h, ts.criterion, ts.warn)
       IN  ts' = [ts EXCEPT
               !.pc = IF res.raised = "none" THEN "done" ELSE res.raised,
               !.res = res]
    /\ UNCHANGED <<sub, dy, fac, cas, tor, cal, pfr, pd, cd, nf, rc, ml, phf>>

\* ------------------------------ filter_bank (psi_fr_factory, 'recalibrate')
(* Widths are integers; sigma_max_to_min_max_ratio = 1.2 is the fraction    *)
(* SigmaRatioNum / SigmaRatioDen.  A recalibrated parameter triple          *)
(* (xi, sigma, j) is named by its scale_diff and its wavelet.               *)
SigmaRatioNum == 6
SigmaRatioDen == 5

\* math.ceil(math.log2(n)) for n >= 1
CeilLog2(n) == CHOOSE m \in 0..n : Pow2(m) >= n /\ (m = 0 \/ Pow2(m - 1) < n)

\* new_sigma_min > sigma_min_max (lines 1201-1203)
WidthExceeded(sigma_lo, sigma_hi, scale_diff) ==
    sigma_lo * Pow2(scale_diff) * SigmaRatioNum > sigma_hi * SigmaRatioDen

\* _recalibrate_psi_fr_v2: the lists of every scale_diff up to the one at
\* which the loop stops, whose lists are left empty
recalibrate_psi_fr_v2(n_filters, sigma_lo, sigma_hi, scale_max, scale_min) ==
    LET D == scale_max - scale_min
        stops == {sd \in 1..D : WidthExceeded(sigma_lo, sigma_hi, sd)}
        sdm == IF stops = {} THEN None ELSE SetMin(stops)
    IN  [scale_diff_max |-> sdm,
         params |-> [sd \in 0..(IF sdm = None THEN D ELSE sdm) |->
                        IF sd = sdm THEN <<>>
                        ELSE [n \in 1..n_filters |-> <<sd, n - 1>>]]]

\* get_params(n1_fr, scale_diff) for 'recalibrate' (lines 973-975)
get_params(params, n1_fr, scale_diff) ==
    IF scale_diff \notin DOMAIN params THEN <<"KeyError">>
    ELSE IF n1_fr + 1 > Len(params[scale_diff]) THEN <<"IndexError">>
    ELSE params[scale_diff][n1_fr + 1]

\* the loop over the paddings for one wavelet (lines 987-1024), from the
\* shortest shape_fr on: st holds the levels sampled, the mapping
\* j0_to_scale_diff, the scale_diff looked up and the exception raised
RECURSIVE RecalibratedLevels(_, _, _, _, _, _)
RecalibratedLevels(rest, j0_prev, n1_fr, rec, scale_max, st) ==
    IF rest = <<>> \/ st.raised # "none" THEN st
    ELSE LET j0 == Head(rest)[1]
             N_fr == Head(rest)[2]
             scale_diff == scale_max - CeilLog2(N_fr)
             looked == get_params(rec.params, n1_fr, scale_diff)
         IN  IF j0 <= 0 \/ j0 = j0_prev
             THEN RecalibratedLevels(Tail(rest), j0_prev, n1_fr, rec,
                                     scale_max, st)
             ELSE IF rec.scale_diff_max # None
                     /\ scale_diff > rec.scale_diff_max
             THEN st
             ELSE IF j0 \in DOMAIN st.j0_to_scale_diff
                     /\ st.j0_to_scale_diff[j0] # scale_diff
             THEN [st EXCEPT !.raised = "Exception"]
             ELSE IF Cardinality({k \in DOMAIN st.j0_to_scale_diff :
                         st.j0_to_scale_diff[k] = scale_diff}) > 1
             THEN [st EXCEPT !.raised = "Exception"]
             ELSE LET map == [k \in DOMAIN st.j0_to_scale_diff \cup {j0} |->
                                 IF k \in DOMAIN st.j0_to_scale_diff
                                 THEN st.j0_to_scale_diff[k] ELSE scale_diff]
                      st1 == [st EXCEPT !.j0_to_scale_diff = map,
                                        !.looked_up = @ \cup {scale_diff}]
                  IN  IF Len(looked) = 1
                      THEN [st1 EXCEPT !.raised = looked[1]]
                      ELSE RecalibratedLevels(
                               Tail(rest), j0, n1_fr, rec, scale_max,
                               [st1 EXCEPT !.levels =
                                   [k \in DOMAIN @ \cup {j0} |->
                                       IF k = j0 THEN looked ELSE @[k]]])

\* zip(subsample_equiv_relative_to_max_pad_init[::-1], shape_fr[::-1])
ReversedZip(j0s, shape_fr) ==
    [i \in 1..Len(j0s) |->
        <<j0s[Len(j0s) - i + 1], shape_fr[Len(j0s) - i + 1]>>]

RecIdle ==
    [pc |-> "idle", n_filters |-> 0, sigma_lo |-> 1, sigma_hi |-> 1,
     shape_fr |-> <<>>, j0s |-> <<>>, scale_max |-> 0, scale_min |-> 0,
     rec |-> [scale_diff_max |-> None, params |-> <<>>],
     j0_to_scale_diff |-> <<>>, looked_up |-> {}, psi_down |-> <<>>]

\* the call of psi_fr_factory with sampling_psi_fr = 'recalibrate': shape_fr
\* does not decrease with n2, and the padding of each n2 follows its scale
RecInit ==
    \E n_filters \in 1..RecMaxFilters, sigma_lo \in 1..RecMaxSigma,
       len \in 1..RecMaxShapes :
    \E sigma_hi \in sigma_lo..RecMaxSigma,
       shape_fr \in [1..len -> 1..Pow2(RecMaxScale)] :
        /\ \A i \in 1..(len - 1) : shape_fr[i] <= shape_fr[i + 1]
        /\ LET scale_max == CeilLog2(shape_fr[len])
           IN  rc = [RecIdle EXCEPT
                   !.pc = "call", !.n_filters = n_filters,
                   !.sigma_lo = sigma_lo, !.sigma_hi = sigma_hi,
                   !.shape_fr = shape_fr, !.scale_max = scale_max,
                   !.scale_min = CeilLog2(shape_fr[1]),
                   !.j0s = [i \in 1..len |->
                               scale_max - CeilLog2(shape_fr[i])]]

\* lines 942-946: the recalibration of the bank to every scale
Recalibrate ==
    /\ rc.pc = "call"
    /\ rc' = [rc EXCEPT
           !.pc = "sample",
           !.rec = recalibrate_psi_fr_v2(rc.n_filters, rc.sigma_lo,
                       rc.sigma_hi, rc.scale_max, rc.scale_min)]
    /\ UNCHANGED <<sub, dy, fac, cas, tor, cal, pfr, pd, cd, nf, ts, ml, phf>>

\* lines 980-1026: one turn of the loop over the wavelets
SampleRecalibrated ==
    /\ rc.pc = "sample"
    /\ Len(rc.psi_down) < rc.n_filters
    /\ LET n1_fr == Len(rc.psi_down)
           st == RecalibratedLevels(
                     ReversedZip(rc.j0s, rc.shape_fr), -1, n1_fr, rc.rec,
                     rc.scale_max,
                     [levels |-> [k \in {0} |-> <<0, n1_fr>>],
                      j0_to_scale_diff |-> rc.j0_to_scale_diff,
                      looked_up |-> rc.looked_up, raised |-> "none"])
       IN  rc' = [rc EXCEPT
               !.pc = IF st.raised # "none" THEN st.raised ELSE "sample",
               !.j0_to_scale_diff = st.j0_to_scale_diff,
               !.looked_up = st.looked_up,
               !.psi_down = IF st.raised # "none" THEN @
                            ELSE Append(@, st.levels)]
    /\ UNCHANGED <<sub, dy, fac, cas, tor, cal, pfr, pd, cd, nf, ts, ml, phf>>

\* lines 1039-1052: the meta of every level filled from get_params
MetaRecalibrated ==
    /\ rc.pc = "sample"
    /\ Len(rc.psi_down) = rc.n_filters
    /\ LET bad == {<<n, j0>> \in (1..rc.n_filters) \X (0..RecMaxScale + 1) :
                      /\ j0 \in DOMAIN rc.psi_down[n] /\ j0 # 0
                      /\ Len(get_params(rc.rec.params, n - 1,
                                        rc.j0_to_scale_diff[j0])) = 1}
       IN  rc' = [rc EXCEPT
               !.pc = IF bad = {} THEN "done" ELSE "IndexError",
               !.looked_up = @ \cup
                   {rc.j0_to_scale_diff[j0] :
                       j0 \in UNION {DOMAIN rc.psi_down[n] \ {0} :
                                        n \in 1..rc.n_filters}}]
    /\ UNCHANGED <<sub, dy, fac, cas, tor, cal, pfr, pd, cd, nf, ts, ml, phf>>

\* ---------------------------- filter_bank (compute_minimum_required_length)
(* fn is any function: each call of fn(N) either raises ValueError or       *)
(* returns a filter of N samples, whose half-width either satisfies         *)
(* 2 * p_halfwidth < N or does not.  N is a power of two throughout and is  *)
(* held by its exponent log2_N.                                             *)
NLimit == 1000000000

\* N > bound for N = 2**log2_N; 2**30 is the first power of two above 1e9
Exceeds(log2_N, bound) == log2_N > 30 \/ Pow2(log2_N) > bound

MlIdle == [pc |-> "idle", N_init |-> 1, max_N |-> None, log2_N |-> 0,
           last |-> "none"]

\* N = 2**math.ceil(math.log2(N_init)) (line 353)
MlInit ==
    \E N_init \in 1..MlMaxNInit, max_N \in {None, 1, MlMaxNInit} :
        ml = [MlIdle EXCEPT !.pc = "loop", !.N_init = N_init,
                            !.max_N = max_N, !.log2_N = CeilLog2(N_init)]

\* lines 355-359: fn(N) raises ValueError, N is doubled and the loop resumed
FnRaisesValueError ==
    /\ ml.pc = "loop"
    /\ ml.log2_N < MlMaxLog2
    /\ ml' = [ml EXCEPT !.log2_N = @ + 1, !.last = "ValueError"]
    /\ UNCHANGED <<sub, dy, fac, cas, tor, cal, pfr, pd, cd, nf, ts, rc, phf>>

\* lines 355-369: fn(N) returns; compute_temporal_support raises ValueError
\* on a filter of one sample
FnReturns ==
    /\ ml.pc = "loop"
    /\ \E short \in BOOLEAN :
        ml' = IF ml.log2_N = 0
              THEN [ml EXCEPT !.pc = "ValueError", !.last = "returned"]
              ELSE IF Exceeds(ml.log2_N, NLimit)
              THEN [ml EXCEPT !.pc = "Exception", !.last = "returned"]
              ELSE IF short \/ (ml.max_N # None
                                /\ Exceeds(ml.log2_N, ml.max_N))
              THEN [ml EXCEPT !.pc = "done", !.last = "returned"]
              ELSE [ml EXCEPT !.log2_N = @ + 1, !.last = "returned"]
    /\ UNCHANGED <<sub, dy, fac, cas, tor, cal, pfr, pd, cd, nf, ts, rc, phf>>

\* ------------------------------------------------------------ phi_fr_factory

\* an array of the factory: the place (j_fr, j_fr_sub) where it was created
\* stands for the object, len is its length
PhiArray(j_fr, j_fr_sub, len) == [obj |-> <<j_fr, j_fr_sub>>, len |-> len]

\* lines 73-74 of periodize_filter_fourier: h_f.reshape(nperiods, N) with
\* N = len // nperiods is refused unless nperiods * N is the length
ReshapeRefused(len, nperiods) == nperiods * (len \div nperiods) # len

RECURSIVE compute_all_subsamplings(_, _, _, _)
\* lines 1121-1124: the periodizations of row[1] by 2**j_fr_sub appended for
\* j_fr_sub = from..log2_F; ValueError when a reshape is refused
compute_all_subsamplings(row, j_fr, from, log2_F) ==
    IF from > log2_F THEN [raised |-> "none", row |-> row]
    ELSE IF ReshapeRefused(row[1].len, Pow2(from))
    THEN [raised |-> "ValueError", row |-> row]
    ELSE compute_all_subsamplings(
             Append(row, PhiArray(j_fr, from, row[1].len \div Pow2(from))),
             j_fr, from + 1, log2_F)

\* lines 1154-1155: the pointers phi_f_fr[0][j_fr_sub], j_fr_sub = j_fr..log2_F
CopiedPointers(row0, j_fr, log2_F) ==
    [s \in 1..(1 + log2_F - j_fr) |-> row0[j_fr + s]]

\* lines 1132-1136: prev_phi_halfwidth == prev_phi.size // 2.  The temporal
\* support of the low-pass is an input of the model (2**support_log2
\* samples): a length up to it cannot hold the filter
TooWide(prev_phi, support_log2) == prev_phi.len <= Pow2(support_log2)

\* the 'j' of entry 0 of every list, whatever the sampling mode
j_fr_0_of_resample(log2_F, sampling_phi_fr, j_fr) == log2_F

\* lines 1164-1165: the 'j' of entry 0 of list j_fr
j_fr_0(log2_F, sampling_phi_fr, j_fr) ==
    IF sampling_phi_fr = "resample" THEN log2_F ELSE log2_F - j_fr

\* lines 1162-1163: sigma_fr_0 in units of sigma0, as numerator and
\* denominator (sigma_low = sigma0 / F, line 1112)
sigma_fr_0(F, sampling_phi_fr, j_fr) ==
    IF sampling_phi_fr = "resample" THEN <<1, F>> ELSE <<Pow2(j_fr), F>>

\* lines 1159-1171: the lists 'xi', 'sigma' and 'j' of list j_fr
PhiFrMetaOf(p, j_fr) ==
    LET n == Len(p.phi_f_fr[j_fr + 1])
        s0 == sigma_fr_0(p.F, p.sampling_phi_fr, j_fr)
    IN  [xi |-> [s \in 1..n |-> 0],
         sigma |-> [s \in 1..n |-> <<s0[1] * Pow2(s - 1), s0[2]>>],
         j |-> [s \in 1..n |->
                   j_fr_0(p.log2_F, p.sampling_phi_fr, j_fr) - (s - 1)]]

PhfIdle ==
    [pc |-> "idle", J_pad_fr_max |-> 0, F |-> 1, log2_F |-> 0,
     sampling_phi_fr |-> "resample", support_log2 |-> 0, j_fr |-> 0,
     phi_f_fr |-> <<>>, meta |-> <<>>]

\* the arguments of phi_fr_factory (line 1058)
PhfInit ==
    \E J_pad_fr_max \in 0..PhiMaxJPad, F \in 1..PhiMaxF, log2_F \in 0..PhiMaxLog2F, sampling_phi_fr \in {"resample", "recalibrate"}, support_log2 \in 0..PhiMaxJPad :
        phf = [PhfIdle EXCEPT !.pc = "call", !.J_pad_fr_max = J_pad_fr_max,
                              !.F = F, !.log2_F = log2_F,
                              !.sampling_phi_fr = sampling_phi_fr,
                              !.support_log2 = support_log2]

\* lines 1112-1126: the initial low-pass and its subsamplings
PhiFrInitial ==
    /\ phf.pc = "call"
    /\ LET N == Pow2(phf.J_pad_fr_max)
           res == compute_all_subsamplings(<<PhiArray(0, 0, N)>>, 0, 1,
                                           phf.log2_F)
       IN  phf' = IF res.raised = "ValueError"
                  THEN [phf EXCEPT !.pc = "ValueError"]
                  ELSE [phf EXCEPT !.phi_f_fr = <<res.row>>, !.j_fr = 1,
                            !.pc = IF phf.log2_F = 0 THEN "meta"
                                   ELSE "lengths"]
    /\ UNCHANGED <<sub, dy, fac, cas, tor, cal, pfr, pd, cd, nf, ts, rc, ml>>

\* lines 1129-1155: one turn of the loop over the input lengths
PhiFrLength ==
    /\ phf.pc = "lengths"
    /\ LET j_fr == phf.j_fr
           N == Pow2(phf.J_pad_fr_max)
           factor == Pow2(j_fr)
           prev_phi == phf.phi_f_fr[j_fr][1]
           res == IF phf.sampling_phi_fr = "resample"
                  THEN compute_all_subsamplings(
                           <<PhiArray(j_fr, 0, N \div factor)>>, j_fr, 1,
                           phf.log2_F)
                  ELSE [raised |-> "none",
                        row |-> CopiedPointers(phf.phi_f_fr[1], j_fr,
                                               phf.log2_F)]
       IN  phf' = IF phf.sampling_phi_fr = "resample"
                     /\ TooWide(prev_phi, phf.support_log2)
                  THEN [phf EXCEPT !.pc = "meta"]
                  ELSE IF res.raised = "ValueError"
                  THEN [phf EXCEPT !.pc = "ValueError"]
                  ELSE [phf EXCEPT !.phi_f_fr = Append(@, res.row),
                            !.j_fr = j_fr + 1,
                            !.pc = IF j_fr = phf.log2_F THEN "meta"
                                   ELSE "lengths"]
    /\ UNCHANGED <<sub, dy, fac, cas, tor, cal, pfr, pd, cd, nf, ts, rc, ml>>

\* lines 1157-1171: the meta information embedded in the filters
PhiFrMeta ==
    /\ phf.pc = "meta"
    /\ phf' = [phf EXCEPT !.pc = "assert",
                   !.meta = [k \in 1..Len(phf.phi_f_fr) |->
                                PhiFrMetaOf(phf, k - 1)]]
    /\ UNCHANGED <<sub, dy, fac, cas, tor, cal, pfr, pd, cd, nf, ts, rc, ml>>

\* lines 1173-1178: 'j' >= 0 and sigma <= sigma0 asserted for every entry
PhiFrAssert ==
    /\ phf.pc = "assert"
    /\ phf' = IF \A k \in 1..Len(phf.meta) : \A s \in 1..Len(phf.meta[k].j) :
                     /\ phf.meta[k].j[s] >= 0
                     /\ phf.meta[k].sigma[s][1] <= phf.meta[k].sigma[s][2]
              THEN [phf EXCEPT !.pc = "done"]
              ELSE [phf EXCEPT !.pc = "AssertionError"]
    /\ UNCHANGED <<sub, dy, fac, cas, tor, cal, pfr, pd, cd, nf, ts, rc, ml>>

\* ---------------------------------------------------------- specifications
\* every subsystem but the one under study rests in its idle record
IdleExcept(v) ==
    /\ IF v = "sub" THEN TRUE ELSE sub = SubIdle
    /\ IF v = "dy" THEN TRUE ELSE dy = DyIdle
    /\ IF v = "fac" THEN TRUE ELSE fac = FacIdle
    /\ IF v = "cas" THEN TRUE ELSE cas = CasIdle
    /\ IF v = "tor" THEN TRUE ELSE tor = TorIdle
    /\ IF v = "cal" THEN TRUE ELSE cal = CalIdle
    /\ IF v = "pfr" THEN TRUE ELSE pfr = PfrIdle
    /\ IF v = "pd" THEN TRUE ELSE pd = PadIdle
    /\ IF v = "cd" THEN TRUE ELSE cd = CdIdle
    /\ IF v = "nf" THEN TRUE ELSE nf = NormIdle
    /\ IF v = "ts" THEN TRUE ELSE ts = TsIdle
    /\ IF v = "rc" THEN TRUE ELSE rc = RecIdle
    /\ IF v = "ml" THEN TRUE ELSE ml = MlIdle
    /\ IF v = "phf" THEN TRUE ELSE phf = PhfIdle

InitSub == SubInit /\ IdleExcept("sub")
NextSub == SubsampleFourier
SpecSub == InitSub /\ [][NextSub]_vars

InitDyadic == DyInit /\ IdleExcept("dy")
NextDyadic == GetMaxDyadicSubsampling
SpecDyadic == InitDyadic /\ [][NextDyadic]_vars

InitFactory == FacInit /\ IdleExcept("fac")
NextFactory == FactoryPsi2 \/ FactoryPsi1 \/ FactoryPhi \/ FactoryMeta
SpecFactory == InitFactory /\ [][NextFactory]_vars

NextCascade ==
    \/ ZerothOrder \/ FirstOrder \/ FrequencyAverage \/ SecondOrderSkip
    \/ SecondOrder \/ PhiTPsiF \/ Assemble

InitCascade == cas \in TimeSideCalls /\ IdleExcept("cas")
SpecCascade == InitCascade /\ [][NextCascade]_vars

InitJoint == cas \in JointCalls /\ IdleExcept("cas")
SpecJoint == InitJoint /\ [][NextCascade]_vars

InitTorch == tor \in TorBuilt /\ IdleExcept("tor")
NextTorch == Scattering1D \/ ScatteringJTFS
SpecTorch == InitTorch /\ [][NextTorch]_vars

InitCalibrate == CalInit /\ IdleExcept("cal")
NextCalibrate == CalibrateCheck \/ CalibrateCompute
SpecCalibrate == InitCalibrate /\ [][NextCalibrate]_vars

InitPsiFr == PfrInit /\ IdleExcept("pfr")
NextPsiFr == PsiFrSample \/ PsiFrMeta
SpecPsiFr == InitPsiFr /\ [][NextPsiFr]_vars

InitPad == PadInit /\ IdleExcept("pd")
NextPad == Pad \/ Unpad
SpecPad == InitPad /\ [][NextPad]_vars

InitCdgmm == CdInit /\ IdleExcept("cd")
NextCdgmm == Cdgmm
SpecCdgmm == InitCdgmm /\ [][NextCdgmm]_vars

InitNormalize == NormInit /\ IdleExcept("nf")
NextNormalize == GetNormalizingFactor \/ ScaleFilter
SpecNormalize == InitNormalize /\ [][NextNormalize]_vars

InitSupport == TsInit /\ IdleExcept("ts")
NextSupport == ComputeTemporalSupport
SpecSupport == InitSupport /\ [][NextSupport]_vars

InitRecalibrate == RecInit /\ IdleExcept("rc")
NextRecalibrate == Recalibrate \/ SampleRecalibrated \/ MetaRecalibrated
SpecRecalibrate == InitRecalibrate /\ [][NextRecalibrate]_vars

InitMinLength == MlInit /\ IdleExcept("ml")
NextMinLength == FnRaisesValueError \/ FnReturns
SpecMinLength == InitMinLength /\ [][NextMinLength]_vars

InitPhiFr == PhfInit /\ IdleExcept("phf")
NextPhiFr == PhiFrInitial \/ PhiFrLength \/ PhiFrMeta \/ PhiFrAssert
SpecPhiFr == InitPhiFr /\ [][NextPhiFr]_vars

\* ------------------------------------------------------------------ claims

\* the sum-periodization the claim describes: entry m is the sum over
\* i in 0..k-1 of x[i * (L/k) + m]
SumPeriodize(x, k) ==
    LET seg == Len(x) \div k
    IN  [m \in 1..seg |->
            <<Rat(SumTo([i \in 1..k |-> x[(i - 1) * seg + m][1]], k), 1),
              Rat(SumTo([i \in 1..k |-> x[(i - 1) * seg + m][2]], k), 1)>>]

\* C1 as stated: for every complex input whose length L is divisible by k,
\* subsample_fourier(x, k) returns the length-L/k array of the sums over the
\* k segments (sum aggregation, never the mean).
C1_SubsampleIsSum ==
    (sub.pc = "done" /\ sub.dtype = "complex64"
        /\ Len(sub.x) % sub.k = 0)
    => (sub.res.raised = "none" /\ sub.res.val = SumPeriodize(sub.x, sub.k))

\* C1: for every complex input whose length L is divisible by k,
\* subsample_fourier(x, k) returns the length-L/k array whose entry m is the
\* mean over i in 0..k-1 of x[i * (L/k) + m], the sum divided by k.
C1_SubsampleIsMean ==
    (sub.pc = "done" /\ sub.dtype = "complex64"
        /\ Len(sub.x) % sub.k = 0)
    => /\ sub.res.raised = "none"
       /\ Len(sub.res.val) * sub.k = Len(sub.x)
       /\ \A m \in 1..Len(sub.res.val) : \A c \in 1..2 :
              sub.res.val[m][c][1] * sub.k
                  = SumPeriodize(sub.x, sub.k)[m][c][1] * sub.res.val[m][c][2]

\* a call that folded two segments whose sum is not zero
C1_Witness ==
    /\ sub.pc = "done" /\ sub.dtype = "complex64"
    /\ sub.k = 2 /\ Len(sub.x) = 4
    /\ sub.res.raised = "none"
    /\ sub.res.val[1][1] = <<1, 2>>
    /\ sub.res.val[2][2] = <<1, 1>>

\* the sum over i in 0..2^k-1 of level_0[i * (N / 2^k) + m], for every m
SumLevel(level_0, k) ==
    LET n == Len(level_0) \div Pow2(k)
    IN  [m \in 1..n |->
            <<SumTo([i \in 1..Pow2(k) |-> level_0[(i - 1) * n + m][1]],
                    Pow2(k)), 1>>]

\* the filters the factory has stored at several levels so far
StoredFilters ==
    {fac.psi2_f[n] : n \in 1..Len(fac.psi2_f)}
    \cup (IF 0 \in DOMAIN fac.phi_f.levels THEN {fac.phi_f} ELSE {})

\* C2: every stored level k >= 1 of every psi2 filter and of phi built by
\* scattering_filter_factory has length N / 2^k and is the sum-periodization
\* of the level-0 array of the same filter (the sum, not the mean).
C2_LevelsAreSumPeriodizations ==
    \A f \in StoredFilters :
        \A k \in DOMAIN f.levels :
            k >= 1 =>
                /\ Len(f.levels[k]) * Pow2(k) = fac.N
                /\ f.levels[k] = SumLevel(f.levels[0], k)

\* a factory call that ended with a psi2 filter stored at level 1 and phi
\* stored at level 2, some of these periodizations being non-zero sums
C2_Witness ==
    /\ fac.pc = "done"
    /\ \E n \in 1..Len(fac.psi2_f) : 1 \in DOMAIN fac.psi2_f[n].levels
    /\ 2 \in DOMAIN fac.phi_f.levels
    /\ \E m \in 1..Len(fac.phi_f.levels[2]) : fac.phi_f.levels[2][m][1] >= 2

\* the largest j >= 0 with u / Den < 2^-(j+1), strictly; -1 when there is none
MaxStrictJ(u) ==
    LET S == {j \in 0..GridBits : u * Pow2(j + 1) < Den}
    IN  IF S = {} THEN -1 ELSE CHOOSE j \in S : \A i \in S : i <= j

\* C3: get_max_dyadic_subsampling returns the maximal j >= 0 such that
\* xi + alpha * sigma < 2^-(j+1) strictly (whenever such a j exists, powers of
\* two included), and the result is never negative.
C3_MaximalStrictJ ==
    dy.pc = "done" =>
        /\ dy.j >= 0
        /\ MaxStrictJ(dy.xi + dy.alpha * dy.sigma) >= 0
            => dy.j = MaxStrictJ(dy.xi + dy.alpha * dy.sigma)

\* a row of Y_2_arr that the loop has assigned (it is no longer the zeros of
\* the preallocation)
Computed(row) == row.ops[1].op # "zeros"

HasOp(x, name) == \E i \in 1..Len(x.ops) : x.ops[i].op = name

\* the state right after the turn of the second-order loop for the filter of
\* index cas.n2 - 1, whose j2 is cas.j2 > 0
PsiTurnDone == cas.pc = "second" /\ cas.n2 > 0 /\ cas.j2 # 0

\* the paths that come from the second-order time wavelets
PsiTPaths == cas.psi_psi_up \o cas.psi_psi_down \o cas.psi_phi

\* C4: psi2[n2] is applied to the first-order response n1 if and only if
\* j1 < j2; no pair with j1 >= j2 is computed, and a psi2 filter with j2 = 0
\* produces no path.
C4_PairsIffFiner ==
    /\ PsiTurnDone =>
           \A n1 \in 1..Len(cas.psi1) :
               /\ Computed(cas.Y_2_arr[n1]) <=> cas.psi1[n1] < cas.j2
               /\ Computed(cas.Y_2_arr[n1]) =>
                      /\ Len(cas.Y_2_arr[n1].ops)
                             = Len(cas.U_1_hat_list[n1].ops) + 3
                      /\ cas.Y_2_arr[n1].ops[
                             Len(cas.U_1_hat_list[n1].ops) + 1].op
                             = "cdgmm_psi2"
                      /\ cas.Y_2_arr[n1].ops[
                             Len(cas.U_1_hat_list[n1].ops) + 1].a
                             = cas.n2 - 1
    /\ \A i \in 1..Len(PsiTPaths) :
           /\ PsiTPaths[i].j[1] # 0
           /\ cas.psi2[PsiTPaths[i].n[1] + 1] = PsiTPaths[i].j[1]
    /\ cas.pc \in {"second", "assemble", "done", "IndexError"} =>
           Len(cas.psi_phi)
               = Cardinality({n \in 1..cas.n2 : cas.psi2[n] # 0})

\* a turn that computed one pair and skipped another, after a filter with
\* j2 = 0 was passed over
C4_Witness ==
    /\ PsiTurnDone
    /\ \E n1 \in 1..Len(cas.psi1) : Computed(cas.Y_2_arr[n1])
    /\ \E n1 \in 1..Len(cas.psi1) : cas.psi1[n1] >= cas.j2
    /\ \E n \in 1..cas.n2 : cas.psi2[n] = 0
    /\ cas.psi_phi # <<>>

\* the state right after one of the two time loops has filled Y_2_arr: the
\* second-order loop for cas.j2 > 0, or the phi_t * psi_f branch (j2 = J - 1)
TimeLoopDone ==
    \/ PsiTurnDone
    \/ cas.pc \in {"assemble", "done", "IndexError"}

\* C5: for every pair the time loops process, k1 + k2 = max(j2 - oversampling,
\* 0): at most j2, exactly j2 without oversampling, the same for every n1 of
\* one n2 (it is the k1_plus_k2 passed on), and the level of the preallocated
\* row the result is written into; also in the phi_t * psi_f branch.
C5_CumulativeTimeSubsampling ==
    /\ cas.pc # "ValueError"
    /\ TimeLoopDone =>
           \A n1 \in 1..Len(cas.psi1) :
               Computed(cas.Y_2_arr[n1]) =>
                   LET row == cas.Y_2_arr[n1]
                       k1 == cas.U_1_hat_list[n1].tm
                       k2 == row.ops[Len(row.ops) - 1].a
                   IN  /\ row.ops[Len(row.ops) - 1].op = "subsample_fourier"
                       /\ row.tm = k1 + k2
                       /\ k1 + k2 = Max(cas.j2 - cas.oversampling, 0)
                       /\ k1 + k2 <= cas.j2
                       /\ cas.oversampling = 0 => k1 + k2 = cas.j2
                       /\ k1 + k2 = cas.k1_plus_k2
                       /\ \A m1 \in 1..Len(cas.psi1) :
                              ~Computed(cas.Y_2_arr[m1]) =>
                                  cas.Y_2_arr[m1].tm = row.tm

\* a second-order turn with oversampling in which a pair was processed with
\* k2 > 0 next to a skipped row, k1 + k2 staying below j2
C5_Witness ==
    /\ PsiTurnDone
    /\ cas.oversampling = 1
    /\ cas.k1_plus_k2 = 1 /\ cas.j2 = 2
    /\ \E n1 \in 1..Len(cas.psi1) :
           /\ Computed(cas.Y_2_arr[n1])
           /\ cas.Y_2_arr[n1].tm > cas.U_1_hat_list[n1].tm
    /\ \E n1 \in 1..Len(cas.psi1) : ~Computed(cas.Y_2_arr[n1])

\* a second-order turn in which two pairs with different k1 were processed
C5_WitnessTwoK1 ==
    /\ PsiTurnDone
    /\ \E n1, m1 \in 1..Len(cas.psi1) :
           /\ Computed(cas.Y_2_arr[n1]) /\ Computed(cas.Y_2_arr[m1])
           /\ cas.U_1_hat_list[n1].tm # cas.U_1_hat_list[m1].tm

\* the phi_t * psi_f branch with a processed pair and k2 > 0
C5_WitnessPhi ==
    /\ cas.pc = "assemble"
    /\ \E n1 \in 1..Len(cas.psi1) :
           /\ Computed(cas.Y_2_arr[n1])
           /\ cas.Y_2_arr[n1].tm > cas.U_1_hat_list[n1].tm

\* C6: first-order filter n1 is subsampled by k1 = max(j1 - oversampling, 0)
\* before the modulus; with average the low-pass adds max(J - k1 -
\* oversampling, 0), the total is max(J - oversampling, 0) as for the zeroth
\* order and the unpadding uses that level; without average the modulus is
\* unpadded at level k1 without further subsampling.
C6_FirstOrderLevels ==
    \A i \in 1..Len(cas.out_S_1) :
        i <= Len(cas.psi1) =>
            LET S_1 == cas.out_S_1[i].coef
                k1 == Max(cas.psi1[i] - cas.oversampling, 0)
                kJ == Max(cas.J - cas.oversampling, 0)
                n == Len(S_1.ops)
            IN  /\ S_1.ops[3] = Op("cdgmm_psi1", i - 1, 0)
                /\ S_1.ops[4] = Op("subsample_fourier", k1, 0)
                /\ S_1.ops[6].op = "modulus"
                /\ \A m \in 1..5 : S_1.ops[m].op # "modulus"
                /\ cas.average =>
                       /\ S_1.ops[n - 2]
                              = Op("subsample_fourier",
                                   Max(cas.J - k1 - cas.oversampling, 0), 0)
                       /\ S_1.tm = kJ
                       /\ S_1.ops[n] = Op("unpad", kJ, 0)
                       /\ cas.out_S_0[1].coef.ops[
                              Len(cas.out_S_0[1].coef.ops)] = Op("unpad", kJ, 0)
                       /\ cas.out_S_0[1].coef.tm = kJ
                /\ ~cas.average =>
                       /\ n = 7
                       /\ S_1.ops[7] = Op("unpad", k1, 0)
                       /\ S_1.tm = k1

\* an averaged call with oversampling whose first-order filters have different
\* k1, the low-pass subsampling one of them further
C6_Witness ==
    /\ cas.pc = "second"
    /\ cas.average /\ cas.oversampling = 1
    /\ \E i, k \in 1..Len(cas.psi1) :
           /\ cas.out_S_1[i].coef.ops[4].a = 0
           /\ cas.out_S_1[k].coef.ops[4].a = 1
           /\ cas.out_S_1[i].coef.tm = 1

\* a call without averaging that came past the first order
C6_WitnessNoAverage ==
    /\ cas.pc = "second" /\ ~cas.average
    /\ \E i \in 1..Len(cas.psi1) : cas.out_S_1[i].coef.tm = 2

C7_MetaMatchesOutput ==
    cas.pc = "done" =>
        LET m == meta(cas.J, cas.psi1, cas.psi2, cas.sc)
        IN  /\ Len(m) = Len(out_S)
            /\ \A i \in 1..Len(out_S) :
                   /\ m[i].j = MetaPad(out_S[i].j, 2)
                   /\ m[i].n = MetaPad(out_S[i].n, 2)
                   /\ m[i].s = MetaPad(out_S[i].s, 1)

\* a finished call with out_type 'array' that passed over a second-order
\* filter with j2 = 0 and returned paths of both spins
C7_Witness ==
    /\ cas.pc = "done" /\ cas.out_type = "array"
    /\ \E n \in 1..Len(cas.psi2) : cas.psi2[n] = 0
    /\ Len(cas.psi_psi_down) >= 2
    /\ \E i \in 1..Len(out_S) : out_S[i].s = <<-1>>

\* the same with out_type 'list' and two second-order filters with j2 > 0
C7_WitnessList ==
    /\ cas.pc = "done" /\ cas.out_type = "list"
    /\ Len(cas.psi_phi) = 2
    /\ Len(out_S) = 4 + Len(cas.psi1) + 5 * Len(cas.sc.psi_j)

\* the paths of the two spins, and those of psi_t * phi_f
SpinPaths == cas.psi_psi_up \o cas.psi_psi_down

\* in a path of _frequency_scattering or _frequency_lowpass, the fifth call is
\* the subsampling by n1_fr_subsample and, when averaging over frequency, the
\* tenth the subsampling by lowpass_subsample_fr
N1FrSubsampleOf(path) == path.coef.ops[5].a
LowpassSubsampleFrOf(path) == path.coef.ops[10].a

\* C9: with aligned, n1_fr_subsample and lowpass_subsample_fr of a joint path
\* depend on n1_fr and the configuration only, not on n2, so that the
\* frequency stride is the same in all n2 slices; without aligned the
\* reference is the padding j0s[n2] of the slice.
C9_AlignedIndependentOfN2 ==
    LET paths == SpinPaths \o cas.psi_phi
        j1_fr(p) == p.j[2]
        m(p) == Min(j1_fr(p), cas.sc.max_subsampling_before_phi_fr)
    IN  \A i \in 1..Len(paths) :
            LET p == paths[i]
            IN  /\ p.coef.ops[5].op = "subsample_fourier"
                /\ cas.average_fr = "true" =>
                       p.coef.ops[10].op = "subsample_fourier"
                /\ cas.aligned =>
                       /\ N1FrSubsampleOf(p)
                              = Max(m(p) - SeqMax(cas.sc.j0s)
                                    - cas.oversampling_fr, 0)
                       /\ \A k \in 1..Len(paths) :
                              (paths[k].n[2] = p.n[2] /\ paths[k].s = p.s) =>
                                  /\ N1FrSubsampleOf(paths[k])
                                         = N1FrSubsampleOf(p)
                                  /\ paths[k].coef.fr = p.coef.fr
                                  /\ cas.average_fr = "true" =>
                                         LowpassSubsampleFrOf(paths[k])
                                             = LowpassSubsampleFrOf(p)
                /\ ~cas.aligned =>
                       N1FrSubsampleOf(p)
                           = Max(m(p) - PyIndex(cas.sc.j0s, p.n[1])
                                 - cas.oversampling_fr, 0)

\* an aligned call, averaged over frequency, whose two n2 slices have
\* different paddings, with a wavelet that is subsampled and then low-passed
\* with a further subsampling
C9_Witness ==
    /\ cas.pc = "done" /\ cas.aligned /\ cas.average_fr = "true"
    /\ cas.sc.j0s[1] # cas.sc.j0s[2]
    /\ Len(cas.psi_phi) = 2
    /\ \E i \in 1..Len(SpinPaths) :
           /\ N1FrSubsampleOf(SpinPaths[i]) > 0
           /\ SpinPaths[i].n[1] = 0
    /\ \E i \in 1..Len(SpinPaths) : LowpassSubsampleFrOf(SpinPaths[i]) > 0

\* a call without aligned in which the same frequential wavelet is subsampled
\* differently in two n2 slices
C9_WitnessUnaligned ==
    /\ cas.pc = "done" /\ ~cas.aligned
    /\ \E i, k \in 1..Len(SpinPaths) :
           /\ SpinPaths[i].n[2] = SpinPaths[k].n[2]
           /\ SpinPaths[i].s = SpinPaths[k].s
           /\ N1FrSubsampleOf(SpinPaths[i]) # N1FrSubsampleOf(SpinPaths[k])

\* C11: a scattering() call on a built Torch object leaves every filter of
\* every bank equal in value to what it was after construction, and calls on
\* the same signal return the same output.
C11_FiltersUnchangedByCalls ==
    tor.pc = "built" =>
        /\ FiltersOf(tor) = tor.built
        /\ \A x \in TorSignals : Cardinality(tor.outs[x]) <= 1

\* the part of C11 that the one-buffer-per-tensor class keeps
C11_Scattering1DKeepsFilters ==
    (tor.pc = "built" /\ tor.cls = "ScatteringTorch1D") =>
        /\ FiltersOf(tor) = tor.built
        /\ \A x \in TorSignals : Cardinality(tor.outs[x]) <= 1

C11_Scattering1DWitness ==
    /\ tor.cls = "ScatteringTorch1D" /\ tor.calls = MaxCalls
    /\ Len(tor.psi1_f) > 1 /\ Len(tor.phi_f[1]) > 1
    /\ \E x \in TorSignals : tor.outs[x] # {}

\* the filter index and level with which a path was filtered by the bank
\* `name` (the frequential filtering is the second call on the joint array)
FilteredBy(path, name) ==
    \E i \in 1..Len(path.coef.ops) :
        path.coef.ops[i].op = name /\ path.coef.ops[i].a = path.n[2]

\* C12: every output path carries its identity: zeroth order and the
\* frequency-averaged first-order entry carry empty j, n, s; first-order path
\* n1 carries j = (j1,), n = (n1,), s = (); a psi_t * psi_f path carries
\* j = (j2, j1_fr), n = (n2, n1_fr) and s = (+1,) when filtered with the
\* spin-up bank, s = (-1,) with the spin-down bank; a psi_t * phi_f path
\* carries n = (n2, -1), j = (j2, J_fr - 1), s = (0,); a phi_t * psi_f path
\* carries n = (-1, n1_fr), j = (J - 1, j1_fr), s = (0,) and is filtered with
\* the spin-up bank only.
C12_PathIdentities ==
    cas.pc = "done" =>
        /\ \A i \in 1..Len(cas.out_S_0) :
               cas.out_S_0[i].j = <<>> /\ cas.out_S_0[i].n = <<>>
               /\ cas.out_S_0[i].s = <<>>
        /\ Len(cas.out_S_1) = Len(cas.psi1) + 1
        /\ \A i \in 1..Len(cas.psi1) :
               /\ cas.out_S_1[i].j = <<cas.psi1[i]>>
               /\ cas.out_S_1[i].n = <<i - 1>>
               /\ cas.out_S_1[i].s = <<>>
        /\ LET fr == cas.out_S_1[Len(cas.psi1) + 1]
           IN  fr.j = <<>> /\ fr.n = <<>> /\ fr.s = <<>>
        /\ \A i \in 1..Len(SpinPaths) :
               LET p == SpinPaths[i]
               IN  /\ Len(p.n) = 2 /\ Len(p.j) = 2
                   /\ p.n[1] \in 0..(Len(cas.psi2) - 1)
                   /\ p.n[2] \in 0..(Len(cas.sc.psi_j) - 1)
                   /\ p.j = <<cas.psi2[p.n[1] + 1], cas.sc.psi_j[p.n[2] + 1]>>
                   /\ p.s \in {<<1>>, <<-1>>}
                   /\ p.s = <<1>> <=> FilteredBy(p, "cdgmm_psi_fr_up")
                   /\ p.s = <<-1>> <=> FilteredBy(p, "cdgmm_psi_fr_down")
                   /\ p.s = <<1>> <=> i <= Len(cas.psi_psi_up)
        /\ \A i \in 1..Len(cas.psi_phi) :
               LET p == cas.psi_phi[i]
               IN  /\ Len(p.n) = 2
                   /\ p.n[1] \in 0..(Len(cas.psi2) - 1) /\ p.n[2] = -1
                   /\ p.j = <<cas.psi2[p.n[1] + 1], cas.sc.J_fr - 1>>
                   /\ p.s = <<0>>
                   /\ HasOp(p.coef, "cdgmm_phi_f")
        /\ \A i \in 1..Len(cas.phi_psi) :
               LET p == cas.phi_psi[i]
               IN  /\ p.n = <<-1, i - 1>>
                   /\ p.j = <<cas.J - 1, cas.sc.psi_j[i]>>
                   /\ p.s = <<0>>
                   /\ FilteredBy(p, "cdgmm_psi_fr_up")
                   /\ ~HasOp(p.coef, "cdgmm_psi_fr_down")
        /\ Len(cas.phi_psi) = Len(cas.sc.psi_j)

\* a finished call whose output holds paths of every kind: both spins, the
\* frequential low-pass of two second-order filters and the time low-pass
C12_Witness ==
    /\ cas.pc = "done"
    /\ Len(cas.psi_psi_up) >= 2 /\ Len(cas.psi_psi_down) >= 2
    /\ Len(cas.psi_phi) = 2 /\ Len(cas.phi_psi) >= 2
    /\ cas.psi_phi[1].j # cas.psi_phi[2].j
    /\ cas.sc.J_fr - 1 # cas.J - 1

\* the two banks of a finished calibration with their Q
CalBanks ==
    {[Q |-> Q1Q2(cal.Q)[1], b |-> cal.bank1],
     [Q |-> Q1Q2(cal.Q)[2], b |-> cal.bank2]}

\* the wavelet of index n (from 0) of the geometric progression of ratio
\* 2^(-1/Q) that starts at xi_max(Q), sigma_max(Q)
GeoXi(Q, n) == Num(compute_xi_max(Q), n)
GeoSigma(Q, n) == Num(compute_sigma_psi_max(Q), n)

\* the length of the geometric part of a bank: its longest prefix that
\* follows the progression
GeoLen(B) ==
    CHOOSE g \in 0..Len(B.b.xi) :
        /\ \A i \in 1..g : B.b.xi[i] = GeoXi(B.Q, i - 1)
                           /\ B.b.sigma[i] = GeoSigma(B.Q, i - 1)
        /\ g < Len(B.b.xi) =>
               ~(B.b.xi[g + 1] = GeoXi(B.Q, g)
                 /\ B.b.sigma[g + 1] = GeoSigma(B.Q, g))

XiMinOf(x) == IF x = None THEN -FixedOne ELSE x

\* C13 as stated: the geometric part starts at xi_max(Q), multiplies xi and
\* sigma by 2^(-1/Q) at each step and stops at the first wavelet whose sigma
\* falls below sigma_min = sigma0 / T, for every (J, Q, T).
C13_StopsBelowSigma0OverT ==
    cal.pc = "done" =>
        \A B \in CalBanks :
            LET g == GeoLen(B)
                sigma_min == Sigma0 \div cal.T
            IN  /\ \A i \in 1..g : Val(B.b.sigma[i], B.Q) >= sigma_min
                /\ Val(GeoSigma(B.Q, g), B.Q) < sigma_min
                /\ \A i \in (g + 1)..Len(B.b.xi) :
                       B.b.sigma[i] = Plain(sigma_min)

\* C13 (amended): the geometric part starts at xi_max(Q), multiplies xi and
\* sigma by 2^(-1/Q) at each step and stops at the first wavelet whose sigma
\* is not above sigma_min = sigma0 / 2^J, whatever T is, or whose xi is not
\* above xi_min when an xi_min is given; the wavelets after it have width
\* sigma_min.
C13_StopsAtSigma0Over2J ==
    cal.pc = "done" =>
        \A B \in CalBanks :
            LET g == GeoLen(B)
                sigma_min == Sigma0 \div Pow2(cal.J)
                xi_min == XiMinOf(cal.xi_min)
            IN  /\ \A i \in 1..g :
                       /\ Val(B.b.sigma[i], B.Q) > sigma_min
                       /\ Val(B.b.xi[i], B.Q) > xi_min
                /\ \/ Val(GeoSigma(B.Q, g), B.Q) <= sigma_min
                   \/ Val(GeoXi(B.Q, g), B.Q) <= xi_min
                /\ \A i \in (g + 1)..Len(B.b.xi) :
                       B.b.sigma[i] = Plain(sigma_min)

\* a finished calibration with T # 2^J whose first-order bank has three
\* wavelets per octave and more than an octave of geometric wavelets
C13_Witness ==
    /\ cal.pc = "done" /\ cal.T # Pow2(cal.J) /\ cal.xi_min = None
    /\ Q1Q2(cal.Q)[1] = 3
    /\ GeoLen([Q |-> 3, b |-> cal.bank1]) > 3
    /\ Len(cal.bank1.xi) = GeoLen([Q |-> 3, b |-> cal.bank1]) + 2

\* a finished calibration whose geometric part was stopped by xi_min
C13_WitnessXiMin ==
    /\ cal.pc = "done" /\ cal.xi_min # None
    /\ LET B == [Q |-> Q1Q2(cal.Q)[1], b |-> cal.bank1]
           g == GeoLen(B)
       IN  /\ g >= 2
           /\ Val(GeoSigma(B.Q, g), B.Q) > Sigma0 \div Pow2(cal.J)

\* x is the fraction (Q - q) / Q of the frequency last
IsFraction(x, last, Q, q) ==
    /\ x.e = last.e
    /\ x.m * Q <= last.m * (Q - q)
    /\ (x.m + 1) * Q > last.m * (Q - q)

\* what C14 says of one bank, its appended wavelets being fractions of last_xi
BankShape(B, first_j_is_0, last_xi) ==
    LET b == B.b
        n == Len(b.xi)
        g == GeoLen(B)
    IN  /\ Len(b.sigma) = n /\ Len(b.j) = n
        /\ \A i \in 1..n :
               /\ Val(b.xi[i], B.Q) > 0
               /\ 2 * Val(b.xi[i], B.Q) < FixedOne
               /\ Val(b.sigma[i], B.Q) >= cal.sigma_min
        /\ \A i \in 1..n : \A k \in (i + 1)..n :
               /\ Val(b.xi[i], B.Q) > Val(b.xi[k], B.Q)
               /\ b.j[i] <= b.j[k]
        /\ (n > 0 /\ first_j_is_0) => b.j[1] = 0
        /\ n - g <= B.Q - 1
        /\ \A q \in 1..(n - g) :
               /\ b.sigma[g + q] = Plain(cal.sigma_min)
               /\ IsFraction(b.xi[g + q], last_xi, B.Q, q)
               /\ Val(b.xi[g + q], B.Q) < Val(last_xi, B.Q)

\* C14 as stated: centre frequencies strictly decreasing and in (0, 0.5),
\* widths >= sigma_min, j non-decreasing with j = 0 for the first filter; the
\* wavelets appended after the geometric part number at most Q - 1, have
\* width sigma_min and centre frequencies (Q - q) / Q times the last
\* geometric xi.
C14_BankShapeAlways ==
    cal.pc = "done" =>
        \A B \in CalBanks :
            LET g == GeoLen(B)
            IN  /\ Len(B.b.xi) > g => g >= 1
                /\ BankShape(B, TRUE,
                             IF g >= 1 THEN B.b.xi[g] ELSE GeoXi(B.Q, 0))

\* C14 (amended): the same, with j = 0 for the first filter when the
\* geometric part is not empty, and with last_xi the last geometric xi when
\* there is one and sigma_max(Q) when the geometric part is empty.
C14_BankShapeGeometric ==
    cal.pc = "done" =>
        \A B \in CalBanks :
            LET g == GeoLen(B)
            IN  BankShape(B, g >= 1,
                          IF g >= 1 THEN B.b.xi[g]
                          ELSE Plain(compute_sigma_psi_max(B.Q)))

\* a bank of three wavelets per octave with geometric wavelets of growing j
\* followed by its two appended wavelets
C14_Witness ==
    /\ cal.pc = "done" /\ Q1Q2(cal.Q)[1] = 3
    /\ LET B == [Q |-> 3, b |-> cal.bank1]
           g == GeoLen(B)
       IN  /\ g >= 4 /\ Len(cal.bank1.xi) = g + 2
           /\ cal.bank1.j[g] > 0

\* a bank without geometric part (sigma_max <= sigma_min) whose first filter
\* is an appended one
C14_WitnessNoGeometric ==
    /\ cal.pc = "done" /\ Q1Q2(cal.Q)[1] = 3
    /\ GeoLen([Q |-> 3, b |-> cal.bank1]) = 0
    /\ Len(cal.bank1.xi) = 2
    /\ cal.bank1.j[1] > 0

\* up is the frequency reflection of down
Reflection(up, down) ==
    /\ Len(up) = Len(down)
    /\ up[1] = down[1]
    /\ \A k \in 1..(Len(down) - 1) : up[k + 1] = down[Len(down) - k + 1]

\* C15: for every frequential wavelet n1_fr and every stored level j0 the
\* spin-up filter is the frequency reflection of the spin-down filter of the
\* same level (up[0] = down[0], up[k] = down[L - k] for 1 <= k < L); both
\* banks have the same stored levels and the same widths, and conj_fr applied
\* twice returns the original array.
C15_UpIsReflectedDown ==
    /\ Len(pfr.psi1_f_fr_up) = Len(pfr.psi1_f_fr_down)
    /\ \A n \in 1..Len(pfr.psi1_f_fr_down) :
           LET up == pfr.psi1_f_fr_up[n]
               down == pfr.psi1_f_fr_down[n]
           IN  /\ DOMAIN up.levels = DOMAIN down.levels
               /\ DOMAIN up.width = DOMAIN down.levels
               /\ up.width = down.width
               /\ \A j0 \in DOMAIN down.levels :
                      /\ Reflection(up.levels[j0], down.levels[j0])
                      /\ conj_fr(conj_fr(down.levels[j0])) = down.levels[j0]
                      /\ conj_fr(conj_fr(up.levels[j0])) = up.levels[j0]

\* a finished factory with a wavelet stored at two levels whose spin-up
\* filter differs from its spin-down filter
C15_Witness ==
    /\ pfr.pc = "done"
    /\ \E n \in 1..Len(pfr.psi1_f_fr_down) :
           /\ DOMAIN pfr.psi1_f_fr_down[n].levels = {0, 1}
           /\ Len(pfr.psi1_f_fr_down[n].levels[1]) >= 4
           /\ pfr.psi1_f_fr_up[n].levels[1] # pfr.psi1_f_fr_down[n].levels[1]
           /\ pfr.psi1_f_fr_up[n].levels[0] # pfr.psi1_f_fr_down[n].levels[0]

\* the index in 0..N-1 of the sample that reflect padding puts at position q
\* (q = 0 the first sample of the signal): a triangle wave of period 2N - 2
ReflectIndex(q, N) ==
    IF N = 1 THEN 0
    ELSE LET r == q % (2 * N - 2)
         IN  IF r < N THEN r ELSE 2 * N - 2 - r

\* the reference padding at position q relative to the signal
ReferencePad(x, q, pad_mode) ==
    IF pad_mode = "zero"
    THEN (IF q >= 0 /\ q < Len(x) THEN x[q + 1] ELSE 0)
    ELSE x[ReflectIndex(q, Len(x)) + 1]

\* C16: for every length N, every pad_left, pad_right >= 0 (also larger than
\* N) and both modes, pad(x, pad_left, pad_right, mode) is the reference
\* padding (zeros, or the mirror reflection that does not repeat the edge
\* sample) and unpad(pad(x), pad_left, pad_left + N) is x, unpad(x, i0, i1)
\* being the slice x[..., i0:i1].
C16_PadUnpadRoundTrip ==
    /\ pd.pc \in {"padded", "done"} =>
           /\ Len(pd.padded) = pd.pad_left + Len(pd.x) + pd.pad_right
           /\ \A p \in 1..Len(pd.padded) :
                  pd.padded[p] =
                      ReferencePad(pd.x, p - 1 - pd.pad_left, pd.pad_mode)
    /\ pd.pc = "done" => pd.out = pd.x

\* a reflect padding longer than the signal on both sides, unpadded
C16_Witness ==
    /\ pd.pc = "done" /\ pd.pad_mode = "reflect"
    /\ Len(pd.x) = 3 /\ pd.pad_left > 3 /\ pd.pad_right > 3
    /\ pd.padded[1] # pd.x[1]

\* a zero padding of a signal of even length
C16_WitnessZero ==
    /\ pd.pc = "done" /\ pd.pad_mode = "zero"
    /\ Len(pd.x) = 4 /\ pd.pad_left > 4 /\ pd.pad_right > 0

\* the arguments C17 lets cdgmm multiply
CdCompatible(A, B) ==
    /\ A.kind = "complex" /\ B.kind \in {"float", "complex"}
    /\ LastN(A.shape, Len(B.shape)) = B.shape
    /\ A.bits = B.bits /\ A.device = B.device

\* C17: cdgmm(A, B) returns the elementwise product only when A is complex,
\* B is real or complex, the trailing dimensions of A match the shape of B
\* and A and B have compatible dtype and the same device; on any shape, dtype
\* or device mismatch it raises (a shape mismatch with both shapes in the
\* message) instead of returning a broadcast result, with or without out.
C17_RaisesOnMismatch ==
    cd.pc = "done" =>
        /\ cd.res.raised = "none" <=> CdCompatible(cd.A, cd.B)
        /\ cd.res.raised = "none" => cd.res.val.shape = cd.A.shape
        /\ (/\ cd.A.kind = "complex" /\ cd.B.kind \in {"float", "complex"}
            /\ LastN(cd.A.shape, Len(cd.B.shape)) # cd.B.shape) =>
               cd.res.shapes = <<cd.A.shape, cd.B.shape>>

\* the part of C17 that the code keeps: without out, a returned product has
\* a complex A, a real or complex B, and shapes that agree up to a last
\* dimension of size 1
C17_ChecksWithoutOut ==
    (cd.pc = "done" /\ cd.out = None /\ cd.res.raised = "none") =>
        /\ cd.A.kind = "complex" /\ cd.B.kind \in {"float", "complex"}
        /\ cd.A.device = cd.B.device
        /\ LastNButLast(cd.A.shape, Len(cd.B.shape)) = ButLast(cd.B.shape)

FinitePositive(f) == ~f.inf /\ f.den > 0

\* C18: get_normalizing_factor raises ValueError whenever the absolute sum of
\* the filter in time is below 1e-7, for 'l1' and 'l2' alike, and for any
\* other value of normalize; whenever it returns, the factor is finite and
\* positive, so that morlet_1d and gauss_1d never return a filter scaled by a
\* factor that is not finite.
C18_FactorFiniteOrRaises ==
    /\ nf.pc \notin {"idle", "call"} =>
           /\ AbsSum(nf.h_abs) < ZeroSumThreshold => nf.pc = "ValueError"
           /\ nf.normalize \notin {"l1", "l2"} => nf.pc = "ValueError"
           /\ nf.pc = "ValueError" <=> nf.res.raised = "ValueError"
           /\ nf.res.raised = "none" =>
                  /\ FinitePositive(nf.res.factor)
                  /\ nf.res.factor.den =
                         (IF nf.normalize = "l1" THEN AbsSum(nf.h_abs)
                          ELSE AbsSquareSum(nf.h_abs))
                  /\ nf.res.factor.root <=> nf.normalize = "l2"
    /\ nf.pc = "done" =>
           /\ nf.res.raised = "none"
           /\ nf.scaled_by = <<nf.res.factor>>
           /\ FinitePositive(nf.scaled_by[1])

\* a filter whose absolute sum is 0 is refused for 'l2'
C18_Witness ==
    /\ nf.pc = "ValueError" /\ nf.normalize = "l2"
    /\ AbsSum(nf.h_abs) = 0 /\ Len(nf.h_abs) = NormMaxLen

\* a filter just at the threshold is normalized
C18_WitnessReturned ==
    /\ nf.pc = "done" /\ nf.normalize = "l2" /\ nf.caller = "gauss_1d"
    /\ AbsSum(nf.h_abs) = ZeroSumThreshold

\* a filter just below the threshold is refused for 'l1'
C18_WitnessBelow ==
    /\ nf.pc = "ValueError" /\ nf.normalize = "l1"
    /\ AbsSum(nf.h_abs) = ZeroSumThreshold - 1

NothingCalibrated ==
    /\ cal.sigma_min = CalIdle.sigma_min /\ cal.sigma_low = CalIdle.sigma_low
    /\ cal.bank1 = CalIdle.bank1 /\ cal.bank2 = CalIdle.bank2

\* C19: calibrate_scattering_filters raises ValueError, before it computes
\* any parameter, whenever Q1 < 1 or Q2 < 1 (an integer Q is Q1 with Q2 = 1,
\* a tuple is (Q1, Q2)), and never raises it when both are at least 1.
C19_RaisesIffQBelowOne ==
    LET Q1 == cal.Q[2]
        Q2 == IF cal.Q[1] = "tuple" THEN cal.Q[3] ELSE 1
    IN  /\ cal.pc = "ValueError" => (Q1 < 1 \/ Q2 < 1) /\ NothingCalibrated
        /\ cal.pc \in {"checked", "done"} => Q1 >= 1 /\ Q2 >= 1
        /\ cal.pc = "checked" => NothingCalibrated
        /\ cal.pc = "done" => cal.sigma_low = Sigma0 \div cal.T

\* a tuple whose second quality factor alone is below 1 is refused
C19_Witness ==
    /\ cal.pc = "ValueError" /\ cal.Q[1] = "tuple"
    /\ cal.Q[2] = MaxQ /\ cal.Q[3] = 0

\* an integer Q below 1 is refused
C19_WitnessInt == cal.pc = "ValueError" /\ cal.Q = <<"int", 0>>

\* an integer Q of 1 and a tuple (1, 1) are calibrated
C19_WitnessAccepted ==
    cal.pc = "done" /\ cal.Q = <<"tuple", 1, 1>> /\ Len(cal.bank2.xi) > 0

\* no sample of the first half of the envelope is at or below the criterion
CriterionUnmet ==
    \A i \in 1..half_support(ts.h) :
        hhalf(ts.h)[i] * ts.criterion[2]
            > ts.criterion[1] * SetMax({hhalf(ts.h)[k] :
                                        k \in 1..half_support(ts.h)})

\* C20: when no sample of the first half of the envelope meets the criterion,
\* compute_temporal_support emits a warning and returns the half-support
\* without raising, also when scattering_filter_factory calls it; and it
\* returns the half-support only then (met exactly at the half-support, it
\* returns the half-support minus one).
C20_WarnsAndReturnsHalfSupport ==
    (ts.pc \notin {"idle", "call"} /\ Len(ts.h[1]) >= 2) =>
        /\ ts.pc = "done"
        /\ CriterionUnmet =>
               /\ ts.res.N = half_support(ts.h)
               /\ ts.res.warnings = <<"UserWarning">>
        /\ ts.res.N = half_support(ts.h) => CriterionUnmet

\* what holds of the value returned, and of the warning when warn is set
C20_ReturnsHalfSupportIffUnmet ==
    (ts.pc \notin {"idle", "call"} /\ Len(ts.h[1]) >= 2) =>
        /\ ts.pc = "done"
        /\ CriterionUnmet => ts.res.N = half_support(ts.h)
        /\ ts.res.N = half_support(ts.h) => CriterionUnmet
        /\ ts.res.warnings = <<"UserWarning">> <=> (CriterionUnmet /\ ts.warn)
        /\ ts.res.warnings # <<"UserWarning">> => ts.res.warnings = <<>>
        /\ (/\ ~CriterionUnmet
            /\ \A i \in 1..(half_support(ts.h) - 1) :
                   hhalf(ts.h)[i] * ts.criterion[2]
                       > ts.criterion[1] * SetMax({hhalf(ts.h)[k] :
                                              k \in 1..half_support(ts.h)}))
           => ts.res.N = half_support(ts.h) - 1

\* scattering_filter_factory falls back to the half-support
C20_WitnessFactoryFallback ==
    /\ ts.pc = "done" /\ ts.caller = "scattering_filter_factory"
    /\ CriterionUnmet /\ ts.res.N = half_support(ts.h)
    /\ Len(ts.h[1]) = TsMaxLen

\* the criterion is met at the last sample of the first half only
C20_WitnessMetAtHalfSupport ==
    /\ ts.pc = "done" /\ half_support(ts.h) >= 2
    /\ ts.res.N = half_support(ts.h) - 1
    /\ hhalf(ts.h)[half_support(ts.h)] > 0
    /\ \A i \in 1..(half_support(ts.h) - 1) :
           hhalf(ts.h)[i] > hhalf(ts.h)[half_support(ts.h)]

\* the tensors that registration hands to register_buffer, in order
RegisteredTensors(built, cls) ==
    IF cls = "ScatteringTorch1D"
    THEN FlatBank(built[1]) \o FlatBank(built[2]) \o FlatBank(built[3])
    ELSE FlatBank(built[1]) \o FlatBank(built[2]) \o FlatBank(built[4])
             \o FlatBank(built[5]) \o FlatBank(built[6])

\* C22: in TimeFrequencyScatteringTorch1D, as in ScatteringTorch1D,
\* register_filters gives every integer-keyed filter array a buffer name of
\* its own, so that no registration overwrites an earlier one, and
\* load_filters restores each filter from the buffer it was registered under:
\* register followed by load is the identity on every filter.
C22_OwnBufferPerFilter ==
    tor.pc = "built" =>
        LET reg == RegisteredTensors(tor.built, tor.cls)
        IN  /\ Len(tor.buffers) = Len(reg)
            /\ \A n \in 1..Len(reg) : tor.buffers[n] = reg[n]
            /\ tor.calls > 0 =>
                   RegisteredTensors(FiltersOf(tor), tor.cls) = reg

\* the part of C22 that holds: ScatteringTorch1D counts tensors
C22_Scattering1DOwnBuffers ==
    (tor.pc = "built" /\ tor.cls = "ScatteringTorch1D") =>
        LET reg == RegisteredTensors(tor.built, tor.cls)
        IN  /\ tor.buffers = reg
            /\ tor.calls > 0 =>
                   RegisteredTensors(FiltersOf(tor), tor.cls) = reg

C22_Scattering1DWitness ==
    /\ tor.cls = "ScatteringTorch1D" /\ tor.calls = 1
    /\ Len(tor.psi1_f) = MaxTorFilters /\ Len(tor.psi2_f) = MaxTorFilters
    /\ Len(tor.buffers) > MaxTorFilters

\* the levels of phi and of psi2[n2] that the cascade indexes for the banks
\* j1s, j2s at one oversampling: phi[0] (line 33), phi[k1] (line 59),
\* psi2[n2][k1] (line 160) and phi[k1 + k2] (line 389)
PhiLevelsIndexed(j1s, j2s, oversampling) ==
    {0}
    \cup {K1(j1s[n1], oversampling) : n1 \in 1..Len(j1s)}
    \cup {K1(j1s[p[1]], oversampling)
              + K2(j2s[p[2]], K1(j1s[p[1]], oversampling), oversampling) :
          p \in {q \in (1..Len(j1s)) \X (1..Len(j2s)) :
                    j2s[q[2]] # 0 /\ ~SkipPair(j1s[q[1]], j2s[q[2]])}}

Psi2LevelsIndexed(j1s, j2s, n2, oversampling) ==
    {K1(j1s[n1], oversampling) :
         n1 \in {m \in 1..Len(j1s) :
                    j2s[n2] # 0 /\ ~SkipPair(j1s[m], j2s[n2])}}

LevelsStored(oversampling) ==
    /\ PhiLevelsIndexed(fac.j1s, fac.j2s, oversampling)
           \subseteq DOMAIN fac.phi_f.levels
    /\ \A n2 \in 1..Len(fac.j2s) :
           Psi2LevelsIndexed(fac.j1s, fac.j2s, n2, oversampling)
               \subseteq DOMAIN fac.psi2_f[n2].levels

\* C23: every filter level the cascade indexes has been synthesized by
\* scattering_filter_factory called with max_subsampling=None: psi2[n2][k1]
\* for every pair with j1 < j2, phi[k1] for every first-order filter,
\* phi[k1 + k2] for every second-order path and phi[0], for every
\* oversampling >= 0 and every T with 1 <= T <= 2^J.
C23_IndexedLevelsAreStored ==
    (fac.pc = "done" /\ fac.max_subsampling = None) =>
        \A oversampling \in 0..MaxOversampling : LevelsStored(oversampling)

\* the part of C23 that holds: the levels of psi2 always, those of phi when
\* floor(log2(T)) is at least the largest j1 and j2
C23_StoredUpToLog2T ==
    (fac.pc = "done" /\ fac.max_subsampling = None) =>
        \A oversampling \in 0..MaxOversampling :
            /\ \A n2 \in 1..Len(fac.j2s) :
                   Psi2LevelsIndexed(fac.j1s, fac.j2s, n2, oversampling)
                       \subseteq DOMAIN fac.psi2_f[n2].levels
            /\ FloorLog2(fac.T) >= Max(SeqMax(fac.j1s), SeqMax(fac.j2s))
                   => LevelsStored(oversampling)
            /\ \A k \in PhiLevelsIndexed(fac.j1s, fac.j2s, oversampling) :
                   k \in DOMAIN fac.phi_f.levels <=> k <= FloorLog2(fac.T)

C23_WitnessStored ==
    /\ fac.pc = "done" /\ fac.T = Pow2(fac.J) /\ fac.J = FacMaxJ
    /\ \E n2 \in 1..Len(fac.j2s) :
           Psi2LevelsIndexed(fac.j1s, fac.j2s, n2, 0) = 0..(fac.J - 1)

\* the frequency-averaged first-order entry, and the arguments of its calls
FrAveraged == cas.out_S_1[Len(cas.psi1) + 1].coef
ArgsOf(coef, names) ==
    {coef.ops[i].a : i \in {k \in 1..Len(coef.ops) : coef.ops[k].op \in names}}

FrAverageDone ==
    /\ cas.pc \notin {"idle", "zeroth", "first"}
    /\ cas.average /\ cas.average_fr = "true"

\* C24: in the frequency-averaged first-order path the low-pass is phi_f_fo;
\* when sc_freq.J_fr_fo > sc_freq.J_fr the counter that selects the unpad
\* indices is the applied low-pass subsampling minus exactly one, otherwise
\* it is the applied subsampling; and in every configuration that counter is
\* a valid level, never negative.
C24_UnpadCounterValid ==
    FrAverageDone =>
        /\ ArgsOf(FrAveraged, {"cdgmm_phi_f_fo"}) # {}
        /\ \A k \in ArgsOf(FrAveraged, {"subsample_fourier"}) :
               ArgsOf(FrAveraged, {"unpad_fr", "unpad_fr_max"}) =
                   {IF cas.sc.J_fr_fo > cas.sc.J_fr THEN k - 1 ELSE k}
        /\ \A a \in ArgsOf(FrAveraged, {"unpad_fr", "unpad_fr_max"}) : a >= 0

\* the part of C24 that holds: the filter and the decrement
C24_DecrementedByOne ==
    FrAverageDone =>
        /\ ArgsOf(FrAveraged, {"cdgmm_phi_f_fo"}) # {}
        /\ ArgsOf(FrAveraged, {"subsample_fourier"}) =
               {LowpassSubsampleFrFo(cas.sc, cas.aligned, cas.out_type,
                                     cas.oversampling_fr)}
        /\ \A k \in ArgsOf(FrAveraged, {"subsample_fourier"}) :
               ArgsOf(FrAveraged, {"unpad_fr", "unpad_fr_max"}) =
                   {IF cas.sc.J_fr_fo > cas.sc.J_fr THEN k - 1 ELSE k}
        /\ (cas.sc.J_fr_fo <= cas.sc.J_fr) =>
               \A a \in ArgsOf(FrAveraged, {"unpad_fr", "unpad_fr_max"}) :
                   a >= 0

C24_WitnessDecremented ==
    /\ FrAverageDone /\ cas.sc.J_fr_fo > cas.sc.J_fr /\ ~cas.aligned
    /\ ArgsOf(FrAveraged, {"unpad_fr", "unpad_fr_max"}) = {cas.sc.J_fr}

\* oversampling_fr at least J_fr_fo: nothing is subsampled, the counter is -1
C24_WitnessNegative ==
    /\ FrAverageDone /\ cas.sc.J_fr_fo > cas.sc.J_fr /\ ~cas.aligned
    /\ cas.oversampling_fr >= cas.sc.J_fr_fo
    /\ ArgsOf(FrAveraged, {"unpad_fr", "unpad_fr_max"}) = {-1}

\* the indices n2 (from 0) of the second-order filters that are not skipped
KeptN2 ==
    LET Kept(n2) == cas.psi2[n2 + 1] # 0
    IN  SelectSeq([i \in 1..Len(cas.psi2) |-> i - 1], Kept)

\* the identities (j, n, s) of the paths in the order of the claim, from the
\* filter banks alone
OrderedIdentities ==
    LET F == Len(cas.sc.psi_j)
        SpinIds(s) ==
            [i \in 1..(Len(KeptN2) * F) |->
                LET n2 == KeptN2[((i - 1) \div F) + 1]
                    n1_fr == (i - 1) % F
                IN  <<<<cas.psi2[n2 + 1], cas.sc.psi_j[n1_fr + 1]>>,
                      <<n2, n1_fr>>, <<s>>>>]
    IN  <<<<<<>>, <<>>, <<>>>>>>
        \o [n1 \in 1..Len(cas.psi1) |->
               <<<<cas.psi1[n1]>>, <<n1 - 1>>, <<>>>>]
        \o <<<<<<>>, <<>>, <<>>>>>>
        \o SpinIds(1) \o SpinIds(-1)
        \o [i \in 1..Len(KeptN2) |->
               <<<<cas.psi2[KeptN2[i] + 1], cas.sc.J_fr - 1>>,
                 <<KeptN2[i], -1>>, <<0>>>>]
        \o [i \in 1..F |->
               <<<<cas.J - 1, cas.sc.psi_j[i]>>, <<-1, i - 1>>, <<0>>>>]

\* C25: the returned list is ordered: the zeroth-order path; the first-order
\* paths by increasing n1; exactly one frequency-averaged first-order entry
\* (with an empty coefficient when the averaging is off); all spin-up
\* psi_t * psi_f paths by increasing n2 then n1_fr; all spin-down ones in the
\* same order; the psi_t * phi_f paths by increasing n2; the phi_t * psi_f
\* paths by increasing n1_fr.  Number and identities of the paths depend on
\* the filter banks only.
C25_PathsOrdered ==
    cas.pc = "done" =>
        /\ [i \in 1..Len(out_S) |-> <<out_S[i].j, out_S[i].n, out_S[i].s>>]
               = OrderedIdentities
        /\ (cas.average_fr = "false" \/ ~cas.average)
               <=> out_S[Len(cas.psi1) + 2].coef = EmptyList
        /\ \A i \in 1..Len(out_S) :
               i # Len(cas.psi1) + 2 => out_S[i].coef # EmptyList

\* a call without frequential averaging, with two kept second-order filters
C25_Witness ==
    /\ cas.pc = "done" /\ cas.average_fr = "false" /\ ~cas.aligned
    /\ Len(KeptN2) = 2 /\ Len(cas.sc.psi_j) = 2
    /\ Len(out_S) = 1 + Len(cas.psi1) + 1 + 4 + 4 + 2 + 2

\* a call in which the first second-order filter is skipped (j2 = 0)
C25_WitnessSkipped ==
    /\ cas.pc = "done" /\ Len(KeptN2) < Len(cas.psi2) /\ KeptN2 # <<>>

\* C26: with sampling_psi_fr = 'recalibrate', recalibrated parameters exist
\* for every scale_diff at which psi_fr_factory samples a filter or fills
\* meta: it never looks up a scale_diff whose recalibrated lists are empty,
\* in particular not scale_diff_max, at which _recalibrate_psi_fr_v2 stopped.
C26_LookedUpScalesAreFilled ==
    /\ rc.pc \notin {"IndexError", "KeyError"}
    /\ \A sd \in rc.looked_up :
           /\ sd \in DOMAIN rc.rec.params
           /\ Len(rc.rec.params[sd]) = rc.n_filters
           /\ sd # rc.rec.scale_diff_max

\* what holds: a lookup fails only at scale_diff_max, and every scale below
\* it is filled
C26_OnlyScaleDiffMaxIsEmpty ==
    /\ rc.pc # "KeyError"
    /\ rc.pc = "IndexError" => rc.rec.scale_diff_max \in rc.looked_up
    /\ \A sd \in rc.looked_up :
           /\ sd \in DOMAIN rc.rec.params
           /\ sd # rc.rec.scale_diff_max
                  => Len(rc.rec.params[sd]) = rc.n_filters
           /\ rc.rec.scale_diff_max # None => sd <= rc.rec.scale_diff_max

C26_WitnessFilled ==
    /\ rc.pc = "done" /\ rc.looked_up = {1}
    /\ rc.rec.scale_diff_max = 2 /\ rc.n_filters = RecMaxFilters

C26_WitnessEmptyLookup ==
    /\ rc.pc = "IndexError" /\ rc.looked_up = {1, 2}
    /\ rc.rec.scale_diff_max = 2

\* C27: compute_minimum_required_length terminates for every fn and every
\* N_init >= 1: it returns a power of two N >= N_init, or raises once N
\* exceeds 1e9, also when fn(N) raises ValueError at every N; so no turn of
\* the loop starts with N past the first power of two above 1e9.
C27_StopsOnceAboveLimit ==
    /\ ml.pc = "loop" /\ ml.log2_N > 0 =>
           ~Exceeds(ml.log2_N - 1, NLimit)
    /\ ml.pc = "done" =>
           /\ ~Exceeds(ml.log2_N, NLimit)
           /\ Pow2(ml.log2_N) >= ml.N_init
    /\ ml.pc = "Exception" => Exceeds(ml.log2_N, NLimit)

\* what holds: a turn starts past that length only after a ValueError of fn,
\* and what is returned is a power of two between N_init and 1e9
C27_AboveLimitOnlyAfterValueError ==
    /\ (ml.pc = "loop" /\ ml.log2_N > 0
            /\ Exceeds(ml.log2_N - 1, NLimit)) => ml.last = "ValueError"
    /\ ml.pc = "done" =>
           /\ ~Exceeds(ml.log2_N, NLimit)
           /\ Pow2(ml.log2_N) >= ml.N_init
    /\ ml.pc = "Exception" =>
           Exceeds(ml.log2_N, NLimit) /\ ml.last = "returned"

C27_WitnessRaised ==
    ml.pc = "Exception" /\ ml.log2_N = 30 /\ ml.N_init = MlMaxNInit

C27_WitnessNotStopped == ml.pc = "loop" /\ ml.log2_N = MlMaxLog2

\* the levels 0..max_subsampling of phi and of every psi2 filter
ExplicitLevelsStored ==
    /\ DOMAIN fac.phi_f.levels = 0..fac.max_subsampling
    /\ Len(fac.psi2_f) = Len(fac.j2s)
    /\ \A n2 \in 1..Len(fac.psi2_f) :
           DOMAIN fac.psi2_f[n2].levels = 0..fac.max_subsampling

\* C28: scattering_filter_factory completes and records
\* phi_f['j'] = floor(log2(T)) for every valid input, with max_subsampling
\* None and with an explicit integer max_subsampling; in the explicit case
\* every psi2 filter and phi store exactly the levels 0..max_subsampling.
C28_CompletesAndRecordsJ ==
    /\ fac.pc \notin {"idle", "psi2", "phi", "meta"} =>
           /\ fac.pc = "done"
           /\ fac.phi_f.j = FloorLog2(fac.T)
    /\ (fac.pc \notin {"idle", "psi2", "phi"} /\ fac.max_subsampling # None)
           => ExplicitLevelsStored

\* what holds: completion when max_subsampling is None, the levels stored
\* when it is explicit, and the exception in exactly that case
C28_CompletesWhenNone ==
    /\ fac.pc \notin {"idle", "psi2", "phi", "meta"} =>
           /\ fac.pc = "done" <=> fac.max_subsampling = None
           /\ fac.pc = "NameError" <=> fac.max_subsampling # None
           /\ fac.pc = "done" => fac.phi_f.j = FloorLog2(fac.T)
    /\ (fac.pc \notin {"idle", "psi2", "phi"} /\ fac.max_subsampling # None)
           => ExplicitLevelsStored

C28_WitnessNone ==
    /\ fac.pc = "done" /\ fac.T = 3 /\ fac.phi_f.j = 1
    /\ Len(fac.j2s) = FacMaxFilters

C28_WitnessExplicit ==
    /\ fac.pc = "NameError" /\ fac.max_subsampling = 1
    /\ ExplicitLevelsStored /\ Len(fac.j2s) = FacMaxFilters

\* every second-order filter that is not skipped has a first-order filter
\* with j1 < j2
FinerFirstOrderExists ==
    \A n2 \in 1..Len(cas.psi2) :
        cas.psi2[n2] # 0 => \E n1 \in 1..Len(cas.psi1) : cas.psi1[n1] < cas.psi2[n2]

\* C29: timefrequency_scattering returns normally when no second-order time
\* filter is admissible (every psi2 filter has j2 = 0): the output then has
\* the zeroth-order, first-order, frequency-averaged first-order and
\* phi_t * psi_f paths and no psi_t * psi_f or psi_t * phi_f path; and when
\* every psi2 filter with j2 > 0 has a first-order filter with j1 < j2, the k1
\* and k2 used after the inner loop come from the current n2.
C29_ReturnsWithoutSecondOrder ==
    /\ KeptN2 = <<>> => cas.pc # "IndexError"
    /\ (cas.pc = "done" /\ KeptN2 = <<>>) =>
           /\ PsiTPaths = <<>>
           /\ Len(out_S) = 1 + Len(cas.psi1) + 1 + Len(cas.phi_psi)
           /\ cas.phi_psi # <<>>
    /\ (FinerFirstOrderExists /\ PsiTurnDone) =>
           cas.k1_plus_k2 = Max(cas.j2 - cas.oversampling, 0)

\* C29 (what the code does): a call in which every psi2 filter has j2 = 0
\* never returns; when it reaches the output list it has the zeroth-order,
\* first-order and phi_t * psi_f paths and no path of a second-order time
\* wavelet, and outs[0] of the empty psi_t * phi_f list raises IndexError.
\* A call that returns has a kept psi2 filter, and with a finer first-order
\* filter for each of them k1 + k2 is the one of the current n2.
C29_NoSecondOrderRaisesIndexError ==
    /\ cas.pc = "done" => KeptN2 # <<>>
    /\ cas.pc = "IndexError" <=>
           (cas.pc \notin {"idle", "zeroth", "first", "second", "assemble",
                           "done", "ValueError", "NameError"}
            /\ KeptN2 = <<>>)
    /\ cas.pc = "IndexError" =>
           /\ PsiTPaths = <<>> /\ cas.phi_psi # <<>>
           /\ Len(cas.out_S_0) = 1 /\ Len(cas.out_S_1) = Len(cas.psi1) + 1
    /\ (FinerFirstOrderExists /\ PsiTurnDone) =>
           cas.k1_plus_k2 = Max(cas.j2 - cas.oversampling, 0)

\* a call with J = 1 whose only second-order filter has j2 = 0 ends in the
\* IndexError of the output list
C29_WitnessIndexError ==
    /\ cas.pc = "IndexError" /\ cas.J = 1 /\ cas.psi2 = <<0>>

\* a turn of a kept second-order filter next to a skipped one
C29_WitnessCurrentN2 ==
    /\ PsiTurnDone /\ FinerFirstOrderExists
    /\ cas.psi2 = <<0, 2>> /\ cas.k1_plus_k2 = 2

\* the factory has built its lists and embedded the meta information
PhiFrBuilt == phf.pc \in {"assert", "done", "AssertionError"}

C30_WitnessResample ==
    /\ phf.pc = "done" /\ phf.sampling_phi_fr = "resample"
    /\ phf.F = 4 /\ phf.log2_F = 2
    /\ Len(phf.phi_f_fr) = 2
    /\ phf.meta[2].j = <<2, 1, 0>> /\ phf.meta[2].sigma[3] = <<4, 4>>

\* a log2_F above floor(log2(F)) fails the assertion on sigma
C30_WitnessAssertion ==
    /\ phf.pc = "AssertionError" /\ phf.log2_F > FloorLog2(phf.F)

====
